---- MODULE Spec2Model ----
(***************************************************************************)
(* Funding-rate dashboard: the matrix builder, the best/worst annotator,   *)
(* the arbitrage deriver and the GET handler of app/api/funding-rates.     *)
(*                                                                         *)
(* Strings are sequences of one-character strings, so that concatenation,  *)
(* prefixes and case conversion are computed as the code computes them.    *)
(* JavaScript numbers are records [k, n, d]: k = "num" is the rational     *)
(* n/d in lowest terms (d > 0), k = "nan" is NaN, k = "inf" is +/-Infinity *)
(* by the sign of n.                                                       *)
(***************************************************************************)
EXTENDS Integers, Sequences, FiniteSets, TLC

VARIABLES
    \* --- the deriver run on its own (SpecDerive) ---
    matrix,          \* symbol -> (exchange -> cell), sparse
    symbols,         \* the symbols argument (sorted, no duplicates)
    exchanges,       \* the exchanges argument (sorted, no duplicates)
    annotated,       \* findBestWorstCells has run on matrix
    candidates,      \* calculateArbitrageOpportunities: list before sort/slice
    considered,      \* the <<symbol, ex1, ex2>> the inner loops visited
    opportunities,   \* calculateArbitrageOpportunities: the returned list
    derived,         \* calculateArbitrageOpportunities has run
    \* --- the route handler (Spec) ---
    world,           \* the deployment and the data source: the route file in
                     \* use, process.env, the tables, what requests may ask
    budget,          \* requests, data-source faults and clock ticks left
    clock,           \* Date.now(), in minutes
    cache,           \* the module-level cache slot
    rq,              \* per request: the locals of one GET invocation
    log,             \* history: the requests begun and ended, in order
    \* --- the reads of the data source on their own (SpecReads) ---
    reads,           \* the rows a read was given and what it returned
    \* --- the opportunity table of the dashboard (SpecTable) ---
    table,           \* the props of ArbitrageTable and the rows it shows
    \* --- the dashboard's fetches (SpecDashboard) ---
    dash             \* the state of DashboardContent and its fetches in flight

deriveVars == <<matrix, symbols, exchanges, annotated, candidates, considered,
                opportunities, derived>>

serverVars == <<world, budget, clock, cache, rq, log>>

readVars == <<reads>>

tableVars == <<table>>

dashVars == <<dash>>

vars == <<deriveVars, serverVars, readVars, tableVars, dashVars>>

-----------------------------------------------------------------------------
(* Bounds of the model *)

\* most exchanges in the wide single-row inputs of the deriver
MaxWide == 7
\* most symbols / exchanges in the small sparse inputs of the deriver
MaxSmall == 2
\* most funding_rates rows in the table
MaxRows == 2
\* most data-source calls that fail in one behaviour
MaxFaults == 1
\* most requests served one after the other
MaxRequests == 2
\* most clock advances in one behaviour
MaxTicks == 1
\* most requests begun in one behaviour of overlapping requests
MaxOverlapping == 3
\* most symbols in the table of a request that runs several batches
MaxSymbols == 21
\* most fetches the dashboard issues in one behaviour
MaxFetches == 3
\* most changes of the days of the URL in one behaviour
MaxNavigations == 3
MaxOiRows == 3
MaxStatusRows == 2

-----------------------------------------------------------------------------
(* JavaScript numbers *)

AbsInt(x) == IF x < 0 THEN -x ELSE x

RECURSIVE GCD(_, _)
GCD(a, b) == IF b = 0 THEN a ELSE GCD(b, a % b)

NaN == [k |-> "nan", n |-> 0, d |-> 1]
PosInf == [k |-> "inf", n |-> 1, d |-> 1]
NegInf == [k |-> "inf", n |-> -1, d |-> 1]

\* the number n/d (d > 0), in lowest terms
Num(n, d) ==
    LET g == GCD(AbsInt(n), d)
    IN  [k |-> "num", n |-> n \div g, d |-> d \div g]

Int2Num(i) == Num(i, 1)

\* a < b; false when either is NaN
Lt(a, b) ==
    /\ a.k # "nan"
    /\ b.k # "nan"
    /\ CASE a.k = "inf" /\ b.k = "inf" -> a.n < b.n
         [] a.k = "inf" -> a.n < 0
         [] b.k = "inf" -> b.n > 0
         [] OTHER -> a.n * b.d < b.n * a.d

Gt(a, b) == Lt(b, a)

\* a === b; false when either is NaN
StrictEq(a, b) == a.k # "nan" /\ b.k # "nan" /\ a = b

\* a >= b; false when either is NaN
Ge(a, b) == Gt(a, b) \/ StrictEq(a, b)

\* a - b on finite numbers and NaN
Sub(a, b) ==
    IF a.k = "nan" \/ b.k = "nan" THEN NaN
    ELSE Num(a.n * b.d - b.n * a.d, a.d * b.d)

\* Math.abs
MathAbs(a) == IF a.k = "nan" THEN NaN ELSE [a EXCEPT !.n = AbsInt(a.n)]

\* a + b on finite numbers and NaN
Add(a, b) ==
    IF a.k = "nan" \/ b.k = "nan" THEN NaN
    ELSE Num(a.n * b.d + b.n * a.d, a.d * b.d)

\* a * b on finite numbers and NaN
Mul(a, b) ==
    IF a.k = "nan" \/ b.k = "nan" THEN NaN
    ELSE Num(a.n * b.n, a.d * b.d)

\* a / b on finite numbers and NaN, b # 0
Div(a, b) ==
    IF a.k = "nan" \/ b.k = "nan" THEN NaN
    ELSE IF b.n < 0 THEN Num(-(a.n * b.d), a.d * (-b.n))
         ELSE Num(a.n * b.d, a.d * b.n)

\* Math.max(a, b): NaN when either is NaN
MathMax(a, b) ==
    IF a.k = "nan" \/ b.k = "nan" THEN NaN
    ELSE IF Lt(a, b) THEN b ELSE a

-----------------------------------------------------------------------------
(* Strings *)

Range(f) == {f[i] : i \in DOMAIN f}

\* String.prototype.toUpperCase on one character
ToUpperChar(c) ==
    CASE c = "a" -> "A" [] c = "b" -> "B" [] c = "c" -> "C" [] c = "d" -> "D"
      [] c = "e" -> "E" [] c = "f" -> "F" [] c = "g" -> "G" [] c = "h" -> "H"
      [] c = "l" -> "L" [] c = "s" -> "S" [] c = "t" -> "T"
      [] OTHER -> c

\* String.prototype.startsWith
StartsWith(s, p) == Len(s) >= Len(p) /\ SubSeq(s, 1, Len(p)) = p

\* String.prototype.substring(from) / slice(from), from 0-based
Substring(s, from) == SubSeq(s, from + 1, Len(s))

HlPrefix == <<"h", "l", "-">>

getExchangeDisplayName(exchange) ==
    IF StartsWith(exchange, HlPrefix)
    THEN <<"H", "L", "-">> \o Substring(exchange, 3)
    ELSE IF Len(exchange) = 0 THEN exchange
         ELSE <<ToUpperChar(exchange[1])>> \o Substring(exchange, 1)

-----------------------------------------------------------------------------
(* findBestWorstCells *)

HasCell(m, symbol, exchange) ==
    symbol \in DOMAIN m /\ exchange \in DOMAIN m[symbol]

\* `${symbol}-${exchange}`
cellKey(symbol, exchange) == symbol \o <<"-">> \o exchange

\* Array.prototype.includes
Includes(list, x) == \E i \in 1..Len(list) : list[i] = x

\* the <<symbol, exchange>> visited by "for symbol of symbols, for exchange
\* of exchanges", in that order
RECURSIVE CellOrder(_, _, _, _)
CellOrder(syms, exs, i, j) ==
    IF i > Len(syms) THEN <<>>
    ELSE IF j > Len(exs) THEN CellOrder(syms, exs, i + 1, 1)
    ELSE <<<<syms[i], exs[j]>>>> \o CellOrder(syms, exs, i, j + 1)

\* one iteration of the first pass on an existing cell
scanCell(acc, key, apr) ==
    LET b == IF Gt(apr, acc.bestAPR)
             THEN [acc EXCEPT !.bestAPR = apr, !.bestCells = <<key>>]
             ELSE IF StrictEq(apr, acc.bestAPR)
                  THEN [acc EXCEPT !.bestCells = Append(@, key)]
                  ELSE acc
    IN  IF Lt(apr, b.worstAPR)
        THEN [b EXCEPT !.worstAPR = apr, !.worstCells = <<key>>]
        ELSE IF StrictEq(apr, b.worstAPR)
             THEN [b EXCEPT !.worstCells = Append(@, key)]
             ELSE b

\* the first pass: the extremes and the keys of the cells that attain them
RECURSIVE scanCells(_, _, _, _)
scanCells(m, order, i, acc) ==
    IF i > Len(order) THEN acc
    ELSE LET s == order[i][1]
             e == order[i][2]
         IN  scanCells(m, order, i + 1,
                 IF HasCell(m, s, e)
                 THEN scanCell(acc, cellKey(s, e), m[s][e].apr)
                 ELSE acc)

\* the matrix after findBestWorstCells(matrix, symbols, exchanges)
findBestWorstCells(m, syms, exs) ==
    LET acc == scanCells(m, CellOrder(syms, exs, 1, 1), 1,
                   [bestAPR |-> NegInf, worstAPR |-> PosInf,
                    bestCells |-> <<>>, worstCells |-> <<>>])
    IN  [s \in DOMAIN m |->
          [e \in DOMAIN m[s] |->
            IF Includes(syms, s) /\ Includes(exs, e)
            THEN [apr |-> m[s][e].apr,
                  rawPercent |-> m[s][e].rawPercent,
                  isBest |-> Includes(acc.bestCells, cellKey(s, e)),
                  isWorst |-> Includes(acc.worstCells, cellKey(s, e))]
            ELSE m[s][e]]]

-----------------------------------------------------------------------------
(* calculateArbitrageOpportunities *)

\* the spread below which a pair is not emitted: diff >= 0.5
MinSpread == Num(1, 2)

\* .slice(0, 20)
TopN == 20

\* exchanges.filter(ex => symbolData[ex])
availableExchanges(symbolData, exs) ==
    SelectSeq(exs, LAMBDA ex : ex \in DOMAIN symbolData)

\* mutant: the inner loop starts at i
InnerStartSelf(i) == i

\* "for (let j = i + 1; ...": first index of the inner loop (1-based)
InnerStart(i) == i + 1

\* the <<ex1, ex2>> visited by the two index loops, in order
RECURSIVE PairLoop(_, _, _)
PairLoop(avail, i, j) ==
    IF i > Len(avail) THEN <<>>
    ELSE IF j > Len(avail) THEN PairLoop(avail, i + 1, InnerStart(i + 1))
    ELSE <<<<avail[i], avail[j]>>>> \o PairLoop(avail, i, j + 1)

\* mutant: long and short chosen by apr1 > apr2
pairOpportunitySwapped(symbol, symbolData, ex1, ex2) ==
    LET apr1 == symbolData[ex1].apr
        apr2 == symbolData[ex2].apr
        diff == MathAbs(Sub(apr1, apr2))
    IN  IF Ge(diff, Num(1, 2))
        THEN <<[symbol |-> symbol,
                longExchange |-> getExchangeDisplayName(
                                   IF Gt(apr1, apr2) THEN ex1 ELSE ex2),
                shortExchange |-> getExchangeDisplayName(
                                   IF Gt(apr1, apr2) THEN ex2 ELSE ex1),
                longRate |-> IF Lt(apr1, apr2) THEN apr1 ELSE apr2,
                shortRate |-> IF Lt(apr1, apr2) THEN apr2 ELSE apr1,
                netCollection |-> diff]>>
        ELSE <<>>

\* mutant: no minimum spread
pairOpportunityNoThreshold(symbol, symbolData, ex1, ex2) ==
    LET apr1 == symbolData[ex1].apr
        apr2 == symbolData[ex2].apr
        diff == MathAbs(Sub(apr1, apr2))
    IN  <<[symbol |-> symbol,
           longExchange |-> getExchangeDisplayName(
                              IF Lt(apr1, apr2) THEN ex1 ELSE ex2),
           shortExchange |-> getExchangeDisplayName(
                              IF Lt(apr1, apr2) THEN ex2 ELSE ex1),
           longRate |-> IF Lt(apr1, apr2) THEN apr1 ELSE apr2,
           shortRate |-> IF Lt(apr1, apr2) THEN apr2 ELSE apr1,
           netCollection |-> diff]>>

\* the body of the inner loop: zero or one opportunity
pairOpportunity(symbol, symbolData, ex1, ex2) ==
    LET apr1 == symbolData[ex1].apr
        apr2 == symbolData[ex2].apr
        diff == MathAbs(Sub(apr1, apr2))
    IN  IF Ge(diff, MinSpread)
        THEN <<[symbol |-> symbol,
                longExchange |-> getExchangeDisplayName(
                                   IF Lt(apr1, apr2) THEN ex1 ELSE ex2),
                shortExchange |-> getExchangeDisplayName(
                                   IF Lt(apr1, apr2) THEN ex2 ELSE ex1),
                longRate |-> IF Lt(apr1, apr2) THEN apr1 ELSE apr2,
                shortRate |-> IF Lt(apr1, apr2) THEN apr2 ELSE apr1,
                netCollection |-> diff]>>
        ELSE <<>>

\* the pairs one symbol's iteration visits (none when it is skipped)
symbolPairs(m, symbol, exs) ==
    IF symbol \notin DOMAIN m THEN <<>>
    ELSE LET avail == availableExchanges(m[symbol], exs)
         IN  IF Len(avail) < 2 THEN <<>>
             ELSE PairLoop(avail, 1, InnerStart(1))

RECURSIVE pairOpportunities(_, _, _, _)
pairOpportunities(symbol, symbolData, pairs, i) ==
    IF i > Len(pairs) THEN <<>>
    ELSE pairOpportunity(symbol, symbolData, pairs[i][1], pairs[i][2])
         \o pairOpportunities(symbol, symbolData, pairs, i + 1)

\* mutant: every listed exchange is paired, a missing cell read as apr 0
symbolOpportunitiesZeroFill(m, symbol, exs) ==
    IF symbol \notin DOMAIN m THEN <<>>
    ELSE LET filled == [e \in Range(exs) |->
                          IF e \in DOMAIN m[symbol] THEN m[symbol][e]
                          ELSE [apr |-> Int2Num(0), rawPercent |-> Int2Num(0)]]
         IN  pairOpportunities(symbol, filled, PairLoop(exs, 1, 2), 1)

\* what one symbol pushes onto opportunities
symbolOpportunities(m, symbol, exs) ==
    IF symbol \notin DOMAIN m THEN <<>>
    ELSE pairOpportunities(symbol, m[symbol], symbolPairs(m, symbol, exs), 1)

\* opportunities before the sort
RECURSIVE pushedOpportunities(_, _, _, _)
pushedOpportunities(m, syms, exs, i) ==
    IF i > Len(syms) THEN <<>>
    ELSE symbolOpportunities(m, syms[i], exs)
         \o pushedOpportunities(m, syms, exs, i + 1)

\* every <<symbol, ex1, ex2>> the loops visit
RECURSIVE visitedPairs(_, _, _, _)
visitedPairs(m, syms, exs, i) ==
    IF i > Len(syms) THEN <<>>
    ELSE LET ps == symbolPairs(m, syms[i], exs)
         IN  [k \in 1..Len(ps) |-> <<syms[i], ps[k][1], ps[k][2]>>]
             \o visitedPairs(m, syms, exs, i + 1)

\* mutant: ascending comparator
compareFnAscending(a, b) == Sub(a.netCollection, b.netCollection)

\* (a, b) => b.netCollection - a.netCollection
compareFn(a, b) == Sub(b.netCollection, a.netCollection)

\* Array.prototype.sort is stable: x goes after every element that does not
\* compare greater than it
RECURSIVE insertSorted(_, _)
insertSorted(sorted, x) ==
    IF sorted = <<>> THEN <<x>>
    ELSE IF Gt(compareFn(Head(sorted), x), Int2Num(0))
         THEN <<x>> \o sorted
         ELSE <<Head(sorted)>> \o insertSorted(Tail(sorted), x)

RECURSIVE sortOpportunities(_, _, _)
sortOpportunities(list, i, acc) ==
    IF i > Len(list) THEN acc
    ELSE sortOpportunities(list, i + 1, insertSorted(acc, list[i]))

\* .slice(0, n)
slice0(list, n) == SubSeq(list, 1, IF Len(list) < n THEN Len(list) ELSE n)

calculateArbitrageOpportunities(m, syms, exs) ==
    slice0(sortOpportunities(pushedOpportunities(m, syms, exs, 1), 1, <<>>),
           TopN)


-----------------------------------------------------------------------------
(* The annotator and the deriver on bounded inputs: SpecDerive *)

\* the elements of pool (a sorted list) that are in S, in pool order
SortedSeqOf(S, pool) == SelectSeq(pool, LAMBDA x : x \in S)

Prefix(pool, n) == SubSeq(pool, 1, IF Len(pool) < n THEN Len(pool) ELSE n)

\* a cell as processSymbolData leaves it (a 365-day window: rawPercent = apr)
MkCell(apr) ==
    [apr |-> apr, rawPercent |-> IF apr.k = "nan" THEN Int2Num(0) ELSE apr]

\* sparse rows over a set of exchanges
CellFns(exSet, vals) == UNION {[D -> vals] : D \in SUBSET exSet}

\* sparse matrices over a set of symbols
Matrices(symSet, exSet, vals) ==
    UNION {[R -> CellFns(exSet, vals)] : R \in SUBSET symSet}

\* small inputs: names that contain '-', ties, spreads of 0.25 and of 0.5
SmallSymbols == << <<"s">>, <<"s", "-", "h", "l">> >>
SmallExchangePool ==
    << <<"c">>, <<"h", "l", "-", "c">>, <<"h", "l", "-", "d">>, <<"t">> >>
SmallExchanges == Prefix(SmallExchangePool, MaxSmall)
SmallAprs == {MkCell(Int2Num(-3)), MkCell(Int2Num(5)), MkCell(Num(21, 4)),
              MkCell(Num(11, 2))}

\* wide inputs: one row, each exchange absent, on a ladder 10, 15, 20, ... or
\* at 10
BTC == <<"B", "T", "C">>
WidePool == << <<"A">>, <<"B">>, <<"C">>, <<"D">>, <<"E">>, <<"F">>, <<"G">>,
               <<"H">>, <<"I">> >>
WideExchanges == Prefix(WidePool, MaxWide)
WideIndex(e) == CHOOSE i \in 1..Len(WidePool) : WidePool[i] = e
WideRows ==
    {[e \in D |-> MkCell(IF e \in F THEN Int2Num(10)
                         ELSE Int2Num(10 + 5 * (WideIndex(e) - 1)))] :
       D \in SUBSET Range(WideExchanges), F \in SUBSET Range(WideExchanges)}

InitDerive ==
    /\ \/ /\ symbols = SmallSymbols
          /\ exchanges = SmallExchanges
          /\ matrix \in Matrices(Range(SmallSymbols), Range(SmallExchanges),
                                 SmallAprs)
       \/ /\ symbols = <<BTC>>
          /\ exchanges = WideExchanges
          /\ matrix \in {[s \in {BTC} |-> r] : r \in WideRows}
    /\ annotated = FALSE
    /\ candidates = <<>>
    /\ considered = <<>>
    /\ opportunities = <<>>
    /\ derived = FALSE
    /\ world = <<>>
    /\ budget = <<>>
    /\ clock = 0
    /\ cache = <<>>
    /\ rq = <<>>
    /\ log = <<>>
    /\ reads = <<>>
    /\ table = <<>>
    /\ dash = <<>>

\* route.ts:306  findBestWorstCells(matrix, symbols, exchanges)
DeriveAnnotate ==
    /\ ~annotated
    /\ matrix' = findBestWorstCells(matrix, symbols, exchanges)
    /\ annotated' = TRUE
    /\ UNCHANGED <<symbols, exchanges, candidates, considered, opportunities,
                   derived>>
    /\ UNCHANGED <<serverVars, readVars, tableVars, dashVars>>

\* route.ts:308  calculateArbitrageOpportunities(matrix, symbols, exchanges)
DeriveCalculate ==
    /\ annotated
    /\ ~derived
    /\ candidates' = pushedOpportunities(matrix, symbols, exchanges, 1)
    /\ considered' = visitedPairs(matrix, symbols, exchanges, 1)
    /\ opportunities' = calculateArbitrageOpportunities(matrix, symbols,
                                                        exchanges)
    /\ derived' = TRUE
    /\ UNCHANGED <<matrix, symbols, exchanges, annotated>>
    /\ UNCHANGED <<serverVars, readVars, tableVars, dashVars>>

NextDerive == DeriveAnnotate \/ DeriveCalculate

SpecDerive == InitDerive /\ [][NextDerive]_vars

-----------------------------------------------------------------------------
(* Claims about the deriver (SpecDerive) *)

AllCells(m) == UNION {{<<s, e>> : e \in DOMAIN m[s]} : s \in DOMAIN m}

\* the listed exchanges that have a cell in the row of symbol s
ListedCells(s) ==
    IF s \in DOMAIN matrix
    THEN {e \in Range(exchanges) : e \in DOMAIN matrix[s]}
    ELSE {}

\* opportunity o is the pair e1 (lower apr) / e2 (higher apr) of its symbol
IsLongShortOf(o, e1, e2) ==
    LET a1 == matrix[o.symbol][e1].apr
        a2 == matrix[o.symbol][e2].apr
    IN  /\ Lt(a1, a2)
        /\ o.longExchange = getExchangeDisplayName(e1)
        /\ o.shortExchange = getExchangeDisplayName(e2)
        /\ o.longRate = a1
        /\ o.shortRate = a2
        /\ ~Gt(o.longRate, o.shortRate)
        /\ o.netCollection = Sub(o.shortRate, o.longRate)
        /\ o.netCollection = MathAbs(Sub(a1, a2))
        /\ Ge(o.netCollection, Int2Num(0))

WellFormedOpportunity(o) ==
    \E e1, e2 \in ListedCells(o.symbol) : e1 # e2 /\ IsLongShortOf(o, e1, e2)

\* the matrix holds only BTC, with apr 10 on A and 15 on B
IsBtcExample ==
    /\ DOMAIN matrix = {BTC}
    /\ DOMAIN matrix[BTC] = {<<"A">>, <<"B">>}
    /\ matrix[BTC][<<"A">>].apr = Int2Num(10)
    /\ matrix[BTC][<<"B">>].apr = Int2Num(15)

BtcExampleOpportunity ==
    [symbol |-> BTC, longExchange |-> <<"A">>, shortExchange |-> <<"B">>,
     longRate |-> Int2Num(10), shortRate |-> Int2Num(15),
     netCollection |-> Int2Num(5)]

\* C1: every emitted opportunity (pushed or returned) names the lower-apr
\* exchange of its pair as longExchange and the higher-apr one as
\* shortExchange, carries those two cells' apr as longRate <= shortRate, and
\* has netCollection = shortRate - longRate = |apr_a - apr_b| >= 0; the matrix
\* {BTC: {A: 10, B: 15}} yields exactly {long A, short B, 10, 15, 5}.
C1_LongIsLowerShortIsHigher ==
    derived =>
      /\ \A i \in 1..Len(candidates) : WellFormedOpportunity(candidates[i])
      /\ \A i \in 1..Len(opportunities) :
            WellFormedOpportunity(opportunities[i])
      /\ IsBtcExample => opportunities = <<BtcExampleOpportunity>>

C1_Witness ==
    derived /\ IsBtcExample /\ Len(opportunities) = 1

SamePair(v, w) == v[1] = w[1] /\ {v[2], v[3]} = {w[2], w[3]}

\* C2: for every symbol the loops visit each unordered pair of distinct
\* exchanges that have a cell exactly once: never an exchange with itself,
\* never the same pair twice, and no two pushed opportunities share a symbol
\* and a set of two exchanges.
C2_EachPairOnce ==
    derived =>
      /\ \A i \in 1..Len(considered) : considered[i][2] # considered[i][3]
      /\ \A i, j \in 1..Len(considered) :
            i # j => ~SamePair(considered[i], considered[j])
      /\ \A s \in Range(symbols) : \A e1, e2 \in ListedCells(s) :
            e1 # e2 =>
              Cardinality({i \in 1..Len(considered) :
                             SamePair(considered[i], <<s, e1, e2>>)}) = 1
      /\ \A i, j \in 1..Len(candidates) :
            i # j =>
              ~(/\ candidates[i].symbol = candidates[j].symbol
                /\ {candidates[i].longExchange, candidates[i].shortExchange}
                     = {candidates[j].longExchange,
                        candidates[j].shortExchange})

C2_Witness ==
    /\ derived
    /\ \E s \in Range(symbols) : Cardinality(ListedCells(s)) >= 4
    /\ Len(candidates) >= 2

CountFor(list, s) == Cardinality({i \in 1..Len(list) : list[i].symbol = s})

VisitsFor(s) == Cardinality({i \in 1..Len(considered) : considered[i][1] = s})

\* the unordered pairs of cells of s whose apr differ by at least 0.5
SpreadPairs(s) ==
    {p \in SUBSET ListedCells(s) :
       /\ Cardinality(p) = 2
       /\ \E e1, e2 \in p :
            /\ e1 # e2
            /\ Ge(MathAbs(Sub(matrix[s][e1].apr, matrix[s][e2].apr)),
                  MinSpread)}

\* C3 as stated: a symbol with cells for exactly three exchanges gets
\* exactly 3 opportunities, whatever the apr values.
C3_AlwaysThree ==
    derived =>
      \A s \in Range(symbols) :
        Cardinality(ListedCells(s)) = 3 => CountFor(candidates, s) = 3

\* C3 amended: a symbol with cells for exactly three exchanges has exactly 3
\* pairs visited and gets one opportunity for each pair whose apr differ by at
\* least 0.5: 3 when all three pairs do, fewer otherwise.
C3_ThreePairsAboveMinSpread ==
    derived =>
      \A s \in Range(symbols) :
        Cardinality(ListedCells(s)) = 3 =>
          /\ VisitsFor(s) = 3
          /\ CountFor(candidates, s) = Cardinality(SpreadPairs(s))
          /\ CountFor(candidates, s) <= 3

C3_Witness ==
    /\ derived
    /\ \E s \in Range(symbols) :
         /\ Cardinality(ListedCells(s)) = 3
         /\ CountFor(candidates, s) = 3
    /\ Len(opportunities) = 3

\* C4: the returned list is non-increasing in netCollection and never longer
\* than the cap of 20.
C4_SortedAndCapped ==
    derived =>
      /\ Len(opportunities) <= TopN
      /\ \A i \in 1..(Len(opportunities) - 1) :
            Ge(opportunities[i].netCollection,
               opportunities[i + 1].netCollection)

C4_Witness ==
    /\ derived
    /\ Len(candidates) > TopN
    /\ Len(opportunities) = TopN
    /\ Gt(opportunities[1].netCollection, opportunities[TopN].netCollection)

\* C5: a symbol without a matrix row, or with a cell for fewer than 2 of the
\* listed exchanges, contributes no opportunity.
C5_FewerThanTwoContributesNone ==
    derived =>
      \A s \in Range(symbols) :
        Cardinality(ListedCells(s)) < 2 =>
          /\ CountFor(candidates, s) = 0
          /\ CountFor(opportunities, s) = 0

C5_Witness ==
    /\ derived
    /\ \E t, u \in Range(symbols) :
         /\ t \in DOMAIN matrix
         /\ Cardinality(ListedCells(t)) = 1
         /\ CountFor(opportunities, u) > 0

IsMaxApr(v) == \A c \in AllCells(matrix) : Ge(v, matrix[c[1]][c[2]].apr)

IsMinApr(v) == \A c \in AllCells(matrix) : Ge(matrix[c[1]][c[2]].apr, v)

\* C6: after findBestWorstCells on a non-empty matrix, isBest holds of exactly
\* the cells whose apr is the matrix-wide maximum and isWorst of exactly those
\* at the minimum, with at least one cell of each kind, for all symbol and
\* exchange names, names containing '-' included.
C6_FlagsIffExtreme ==
    (annotated /\ AllCells(matrix) # {}) =>
      /\ \A c \in AllCells(matrix) :
           LET cell == matrix[c[1]][c[2]]
           IN  /\ cell.isBest <=> IsMaxApr(cell.apr)
               /\ cell.isWorst <=> IsMinApr(cell.apr)
      /\ \E c \in AllCells(matrix) : matrix[c[1]][c[2]].isBest
      /\ \E c \in AllCells(matrix) : matrix[c[1]][c[2]].isWorst

\* C7: a cell carries isBest and isWorst together only when every cell of the
\* matrix has the same apr.
C7_BothFlagsOnlyIfUniform ==
    annotated =>
      \A c \in AllCells(matrix) :
        (matrix[c[1]][c[2]].isBest /\ matrix[c[1]][c[2]].isWorst) =>
          \A b \in AllCells(matrix) :
            matrix[b[1]][b[2]].apr = matrix[c[1]][c[2]].apr

-----------------------------------------------------------------------------
(* The data source and the matrix builder *)

\* one day, 24 * 60 * 60 * 1000 ms, in the model's time unit (one minute)
DAY == 1440

\* CACHE_TTL = 5 * 60 * 1000 ms, in minutes
CACHE_TTL == 5

\* calculateAPR(rateSum, days) = rateSum * (365 / days) * 100
calculateAPR(rateSum, days) ==
    Mul(Mul(rateSum, Div(Int2Num(365), days)), Int2Num(100))

\* rateSumToPercent(rateSum) = rateSum * 100
rateSumToPercent(rateSum) == Mul(rateSum, Int2Num(100))

\* new Date(endTime.getTime() - days * 24 * 60 * 60 * 1000): an Invalid Date
\* (NaN) when days is NaN
startTimeOf(endTime, days) == Sub(endTime, Mul(days, Int2Num(DAY)))

\* Date.prototype.toISOString throws a RangeError on an Invalid Date
ToISOStringThrows(date) == date.k = "nan"

\* the funding_rates rows of one pair with startTime <= funding_time <= endTime
rowsInWindow(db, exchange, symbol, startTime, endTime) ==
    {row \in db :
       /\ row.exchange = exchange
       /\ row.symbol = symbol
       /\ Ge(Int2Num(row.funding_time), startTime)
       /\ Ge(endTime, Int2Num(row.funding_time))}

\* sum += parseFloat(row.funding_rate) || 0 over the rows
RECURSIVE sumRates(_)
sumRates(rows) ==
    IF rows = {} THEN Int2Num(0)
    ELSE LET row == CHOOSE x \in rows : TRUE
         IN  Add(row.funding_rate, sumRates(rows \ {row}))

\* getReferenceTimestamps: the rows the RPC returned, [] when building the
\* arguments throws or the RPC reports an error
getReferenceTimestamps(outcome, startDate, endDate) ==
    IF ToISOStringThrows(startDate) \/ ToISOStringThrows(endDate) THEN <<>>
    ELSE IF ~outcome.ok THEN <<>>
    ELSE outcome.rows

\* mutant: a failed lookup yields NaN
getFundingRatesSumNaN(db, failed, exchange, symbol, startTime, endTime) ==
    IF ToISOStringThrows(startTime) \/ ToISOStringThrows(endTime)
    THEN Int2Num(0)
    ELSE IF failed THEN NaN
    ELSE sumRates(rowsInWindow(db, exchange, symbol, startTime, endTime))

\* getFundingRatesSum (route.ts): the sum of the window's rates, 0 when
\* building the query throws or the query reports an error
getFundingRatesSum(db, failed, exchange, symbol, startTime, endTime) ==
    IF ToISOStringThrows(startTime) \/ ToISOStringThrows(endTime)
    THEN Int2Num(0)
    ELSE IF failed THEN Int2Num(0)
    ELSE sumRates(rowsInWindow(db, exchange, symbol, startTime, endTime))

\* mutant: the reference timestamps are ignored
resolveWindowNominal(refTimestamps, startTime, endTime) ==
    [start |-> startTime, end |-> endTime]

\* the resolved window of one symbol
resolveWindow(refTimestamps, startTime, endTime) ==
    IF Len(refTimestamps) > 0
    THEN [start |-> Int2Num(refTimestamps[1].funding_time),
          end |-> Int2Num(refTimestamps[Len(refTimestamps)].funding_time)]
    ELSE [start |-> startTime, end |-> endTime]

\* mutant: the span of the window, unclamped
actualDaysOfSpan(w) == Div(Sub(w.end, w.start), Int2Num(DAY))

\* Math.max(1, (actualEnd - actualStart) / (24 * 60 * 60 * 1000))
actualDaysOf(w) == MathMax(Int2Num(1), Div(Sub(w.end, w.start), Int2Num(DAY)))

\* one exchange's cell, route.ts (Supabase client)
cellSupabase(db, failed, exchange, symbol, w) ==
    LET rateSum == getFundingRatesSum(db, failed, exchange, symbol,
                                      w.start, w.end)
    IN  [apr |-> calculateAPR(rateSum, actualDaysOf(w)),
         rawPercent |-> rateSumToPercent(rateSum)]

\* one exchange's cell, part_003 (pg pool): SUM(funding_rate) is NULL, read
\* as 0, when no row matches; the catch yields the default cell
cellPg(db, failed, exchange, symbol, w) ==
    IF ToISOStringThrows(w.start) \/ ToISOStringThrows(w.end) \/ failed
    THEN [apr |-> Int2Num(0), rawPercent |-> Int2Num(0)]
    ELSE LET rateSum == sumRates(rowsInWindow(db, exchange, symbol,
                                              w.start, w.end))
         IN  [apr |-> calculateAPR(rateSum, actualDaysOf(w)),
              rawPercent |-> rateSumToPercent(rateSum)]

\* processSymbolData(symbol, exchanges, endTime, days): symbolData.  refOutcome
\* is what the reference-timestamp RPC answers, failedSet the exchanges whose
\* rate query reports an error.
processSymbolData(impl, db, refOutcome, failedSet, symbol, exs, endTime, days) ==
    LET startTime == startTimeOf(endTime, days)
        refTimestamps == getReferenceTimestamps(refOutcome, startTime, endTime)
        w == resolveWindow(refTimestamps, startTime, endTime)
    IN  [exchange \in Range(exs) |->
           IF impl = "supabase"
           THEN cellSupabase(db, exchange \in failedSet, exchange, symbol, w)
           ELSE cellPg(db, exchange \in failedSet, exchange, symbol, w)]

\* the values the local actualDays took while a symbol's cells were built:
\* route.ts computes it for every exchange, part_003 after each rate query
\* that answered
actualDaysUsed(impl, failedSet, exs, w) ==
    {actualDaysOf(w) : exchange \in
       {e \in Range(exs) :
          \/ impl = "supabase"
          \/ ~(ToISOStringThrows(w.start) \/ ToISOStringThrows(w.end)
                 \/ e \in failedSet)}}

\* the window processSymbolData resolved for a symbol
windowOf(refOutcome, endTime, days) ==
    LET startTime == startTimeOf(endTime, days)
    IN  resolveWindow(getReferenceTimestamps(refOutcome, startTime, endTime),
                      startTime, endTime)

-----------------------------------------------------------------------------
(* The other data-source reads of GET *)

\* UTF-16 code unit order of the characters the model uses
Alphabet ==
    <<"-", "A", "B", "C", "D", "E", "F", "G", "H", "I", "L", "S", "T",
      "a", "b", "c", "d", "e", "f", "g", "h", "l", "s", "t">>

CharCode(c) == CHOOSE i \in 1..Len(Alphabet) : Alphabet[i] = c

\* a < b as Array.prototype.sort compares strings by default
RECURSIVE StrLt(_, _)
StrLt(a, b) ==
    IF Len(b) = 0 THEN FALSE
    ELSE IF Len(a) = 0 THEN TRUE
    ELSE IF CharCode(a[1]) # CharCode(b[1])
         THEN CharCode(a[1]) < CharCode(b[1])
         ELSE StrLt(Tail(a), Tail(b))

\* Array.from(new Set(values)).sort()
RECURSIVE sortedDistinct(_)
sortedDistinct(S) ==
    IF S = {} THEN <<>>
    ELSE LET least == CHOOSE x \in S : \A y \in S \ {x} : StrLt(x, y)
         IN  <<least>> \o sortedDistinct(S \ {least})

\* mutant: the limits belong to the lower class
healthOfInclusive(hours) ==
    IF Ge(Int2Num(2), hours) THEN "healthy"
    ELSE IF Ge(Int2Num(6), hours) THEN "warning"
    ELSE "error"

\* the health class of one get_exchange_status row
healthOf(hours) ==
    IF Lt(hours, Int2Num(2)) THEN "healthy"
    ELSE IF Lt(hours, Int2Num(6)) THEN "warning"
    ELSE "error"

\* getExchangeStatus: keyed by row.exchange, a later row overwriting; {} when
\* the RPC fails
RECURSIVE statusOfRows(_, _, _)
statusOfRows(rows, i, acc) ==
    IF i > Len(rows) THEN acc
    ELSE LET row == rows[i]
             entry == [status |-> healthOf(row.hours_since_update),
                       lastUpdate |-> row.last_update,
                       count |-> row.symbol_count]
         IN  statusOfRows(rows, i + 1,
               [e \in DOMAIN acc \cup {row.exchange} |->
                  IF e = row.exchange THEN entry ELSE acc[e]])

getExchangeStatus(failed, rows) ==
    IF failed THEN <<>> ELSE statusOfRows(rows, 1, <<>>)

\* getStockSymbols: [] when the RPC fails
getStockSymbols(failed, rows) ==
    IF failed THEN <<>> ELSE [i \in 1..Len(rows) |-> rows[i].symbol]

\* parseFloat(x) || 0
parseFloatOr0(x) == IF x.k = "nan" \/ x = Int2Num(0) THEN Int2Num(0) ELSE x

\* getOIData, route.ts: rows by timestamp descending; a symbol's entry is set
\* while it is still falsy (missing or 0)
RECURSIVE oiOfRowsSupabase(_, _, _)
oiOfRowsSupabase(rows, i, acc) ==
    IF i > Len(rows) THEN acc
    ELSE LET row == rows[i]
         IN  oiOfRowsSupabase(rows, i + 1,
               IF row.symbol \notin DOMAIN acc
                  \/ acc[row.symbol] = Int2Num(0)
               THEN [sym \in DOMAIN acc \cup {row.symbol} |->
                       IF sym = row.symbol THEN parseFloatOr0(row.oi_usd)
                       ELSE acc[sym]]
               ELSE acc)

\* getOIData, part_003: DISTINCT ON (symbol) ... ORDER BY symbol, timestamp
\* DESC keeps each symbol's first row of the descending order
oiOfRowsPg(rows) ==
    [sym \in {rows[i].symbol : i \in 1..Len(rows)} |->
       LET first == CHOOSE i \in 1..Len(rows) :
                      /\ rows[i].symbol = sym
                      /\ \A j \in 1..(i - 1) : rows[j].symbol # sym
       IN  parseFloatOr0(rows[first].oi_usd)]

getOIData(impl, failed, rows) ==
    IF failed THEN <<>>
    ELSE IF impl = "supabase" THEN oiOfRowsSupabase(rows, 1, <<>>)
    ELSE oiOfRowsPg(rows)

\* FundingMatrix: const cellData = matrix[symbol]?.[exchange]; a cell is
\* rendered when cellData is truthy
fundingMatrixHasCell(m, symbol, exchange) ==
    symbol \in DOMAIN m /\ exchange \in DOMAIN m[symbol]

-----------------------------------------------------------------------------
(* GET /api/funding-rates: Spec *)

Requests == {"r1", "r2"}

batchSize == 10

\* a data-source call of a request, by what it reads
Call(name, symbol, exchange) ==
    [call |-> name, symbol |-> symbol, exchange |-> exchange]

\* process.env as a request reads it
Env(hasUrl, hasKey) == [hasUrl |-> hasUrl, hasKey |-> hasKey]

NoCache == [present |-> FALSE, data |-> <<>>, timestamp |-> 0, days |-> NaN]

IdleRequest ==
    [pc |-> "idle", days |-> NaN, now |-> 0, hit |-> FALSE,
     symbols |-> <<>>, exchanges |-> <<>>,
     exchangeStatus |-> <<>>, stockSymbols |-> <<>>, oiData |-> <<>>,
     endTime |-> 0, matrix |-> <<>>, i |-> 0, batch |-> <<>>,
     results |-> <<>>, windows |-> <<>>, rateFailed |-> <<>>,
     failedCalls |-> {}, queries |-> 0, refRows |-> <<>>,
     actualDays |-> <<>>, started |-> <<>>, rounds |-> 0,
     env |-> Env(TRUE, TRUE), slot |-> NoCache,
     response |-> [status |-> 0, body |-> <<>>]]

\* the tables of the data source
ETH == <<"E", "T", "H">>
ExB == <<"b">>
ExHlC == <<"h", "l", "-", "c">>

Now0 == 10 * DAY

FundingRow(ex, sym, t, rate) ==
    [exchange |-> ex, symbol |-> sym, funding_time |-> t, funding_rate |-> rate]

RowUniverse ==
    {FundingRow(ExB, BTC, 4 * DAY, Num(1, 1000)),
     FundingRow(ExB, BTC, 9 * DAY, Num(2, 1000)),
     FundingRow(ExHlC, BTC, 9 * DAY, Num(-1, 1000)),
     FundingRow(ExB, ETH, 2 * DAY, Num(1, 1000)),
     FundingRow(ExHlC, ETH, 4 * DAY, Num(-2, 1000)),
     FundingRow(ExHlC, ETH, 9 * DAY, Num(3, 1000))}

RefRow(t) == [funding_time |-> t]

\* what get_reference_timestamps may return: nothing, one timestamp, a span
\* of 5.5 days, the same descending
RefPool ==
    {<<>>,
     <<RefRow(9 * DAY)>>,
     <<RefRow(4 * DAY), RefRow(9 * DAY + 720)>>,
     <<RefRow(9 * DAY + 720), RefRow(4 * DAY)>>}

\* get_exchange_status: one row per exchange of the table
StatusRowsOf(db) ==
    LET exs == sortedDistinct({row.exchange : row \in db})
    IN  [i \in 1..Len(exs) |->
           [exchange |-> exs[i],
            hours_since_update |-> IF exs[i] = ExB THEN Int2Num(1)
                                   ELSE Int2Num(7),
            last_update |-> "2024-01-01T00:00:00Z",
            symbol_count |-> Cardinality({row.symbol : row \in
                               {x \in db : x.exchange = exs[i]}})]]

OiRow(sym, v, t) == [symbol |-> sym, oi_usd |-> v, timestamp |-> t]

\* oi_data by timestamp descending
OiTable ==
    <<OiRow(BTC, Int2Num(100), 9 * DAY), OiRow(ETH, Int2Num(50), 9 * DAY),
      OiRow(BTC, Int2Num(80), 8 * DAY)>>

StockTable == <<[symbol |-> ETH]>>

World(impl, envPool, db, daysPool, refPool) ==
    [impl |-> impl, envPool |-> envPool,
     db |-> db, statusRows |-> StatusRowsOf(db), stockRows |-> StockTable,
     oiRows |-> OiTable, daysPool |-> daysPool, refPool |-> refPool,
     clients |-> {"r1"}]

\* one request against every small table, with data-source faults
RichWorlds ==
    {World(c[1], {Env(c[2], c[3])}, db,
           {NaN, Int2Num(-1), Int2Num(0), Int2Num(1), Int2Num(7)}, RefPool) :
       c \in {<<"supabase", TRUE, TRUE>>, <<"supabase", FALSE, TRUE>>,
              <<"supabase", TRUE, FALSE>>, <<"pg", TRUE, TRUE>>},
       db \in {d \in SUBSET RowUniverse : Cardinality(d) <= MaxRows}}

\* requests one after the other against one table, the clock advancing
SerialWorlds ==
    {World(impl, {Env(TRUE, TRUE), Env(TRUE, FALSE)},
           {FundingRow(ExB, BTC, 9 * DAY, Num(2, 1000)),
            FundingRow(ExHlC, BTC, 9 * DAY, Num(-1, 1000))},
           {NaN, Int2Num(1), Int2Num(7)}, {<<>>}) :
       impl \in {"supabase", "pg"}}

Init ==
    /\ \/ /\ world \in RichWorlds
          /\ budget = [requests |-> 1, faults |-> MaxFaults, ticks |-> 0]
       \/ /\ world \in SerialWorlds
          /\ budget = [requests |-> MaxRequests, faults |-> MaxFaults,
                       ticks |-> MaxTicks]
    /\ clock = Now0
    /\ cache = NoCache
    /\ rq = [r \in Requests |-> IdleRequest]
    /\ log = <<>>
    /\ reads = <<>>
    /\ table = <<>>
    /\ dash = <<>>
    /\ matrix = <<>>
    /\ symbols = <<>>
    /\ exchanges = <<>>
    /\ annotated = FALSE
    /\ candidates = <<>>
    /\ considered = <<>>
    /\ opportunities = <<>>
    /\ derived = FALSE

\* the body of a 200 answer
ResponseData(m, exs, exchangeStatus, oiData, stockSymbols, arb) ==
    [matrix |-> m,
     exchanges |-> [i \in 1..Len(exs) |-> getExchangeDisplayName(exs[i])],
     exchangeStatus |-> exchangeStatus,
     oiData |-> oiData,
     stockSymbols |-> stockSymbols,
     arbitrageOpportunities |-> arb]

\* the catch at the request boundary: route.ts attaches error.message,
\* part_003 does not
InternalError(impl, message) ==
    [status |-> 500,
     body |-> IF impl = "supabase"
              THEN [error |-> "Internal server error", message |-> message]
              ELSE [error |-> "Internal server error"]]

ConfigError ==
    [status |-> 500,
     body |-> [error |->
                 "Server configuration error: missing Supabase credentials"]]

\* mutant: the slot answers whatever days its entry was computed for
cacheHitAnyDays(c, days, now) ==
    /\ c.present
    /\ now - c.timestamp < CACHE_TTL

\* mutant: an entry of exactly CACHE_TTL still answers
cacheHitInclusive(c, days, now) ==
    /\ c.present
    /\ StrictEq(c.days, days)
    /\ now - c.timestamp <= CACHE_TTL

\* cache && cache.days === days && (now - cache.timestamp) < CACHE_TTL
cacheHit(c, days, now) ==
    /\ c.present
    /\ StrictEq(c.days, days)
    /\ now - c.timestamp < CACHE_TTL

Spend(field, n) == [budget EXCEPT ![field] = @ - n]

\* history: request r began asking for days, answered from the slot or not
Began(r, days, hit) ==
    [ev |-> "start", r |-> r, days |-> days, hit |-> hit, status |-> 0,
     wrote |-> FALSE]

\* history: request r answered with status, having written the slot or not
Ended(r, days, hit, status, wrote) ==
    [ev |-> "end", r |-> r, days |-> days, hit |-> hit, status |-> status,
     wrote |-> wrote]

\* mutant: the cache slot is consulted before the credentials
StartMissingConfigAfterCache(r, env, days) ==
    /\ world.impl = "supabase"
    /\ ~(env.hasUrl /\ env.hasKey)
    /\ rq' = [rq EXCEPT ![r] = [IdleRequest EXCEPT
                                  !.pc = "done", !.env = env, !.days = days,
                                  !.slot = cache,
                                  !.hit = cacheHit(cache, days, clock),
                                  !.response =
                                      IF cacheHit(cache, days, clock)
                                      THEN [status |-> 200,
                                            body |-> cache.data]
                                      ELSE ConfigError]]
    /\ log' = log \o <<Began(r, days, cacheHit(cache, days, clock)),
                        Ended(r, days, cacheHit(cache, days, clock),
                              IF cacheHit(cache, days, clock) THEN 200
                              ELSE 500, FALSE)>>
    /\ UNCHANGED cache

\* route.ts:245-254: a credential is missing
StartMissingConfig(r, env, days) ==
    /\ world.impl = "supabase"
    /\ ~(env.hasUrl /\ env.hasKey)
    /\ rq' = [rq EXCEPT ![r] = [IdleRequest EXCEPT !.pc = "done",
                                                   !.env = env,
                                                   !.days = days,
                                                   !.slot = cache,
                                                   !.response = ConfigError]]
    /\ log' = log \o <<Began(r, days, FALSE),
                        Ended(r, days, FALSE, 500, FALSE)>>
    /\ UNCHANGED cache

\* route.ts:259-262: answered from the cache slot
StartCacheHit(r, env, days) ==
    /\ world.impl = "supabase" => (env.hasUrl /\ env.hasKey)
    /\ cacheHit(cache, days, clock)
    /\ rq' = [rq EXCEPT ![r] = [IdleRequest EXCEPT
                                  !.pc = "done", !.env = env,
                                  !.slot = cache,
                                  !.days = days, !.now = clock,
                                  !.hit = TRUE,
                                  !.response = [status |-> 200,
                                                body |-> cache.data]]]
    /\ log' = log \o <<Began(r, days, TRUE), Ended(r, days, TRUE, 200, FALSE)>>
    /\ UNCHANGED cache

\* route.ts:264: the slot does not answer, the symbols are asked for
StartCacheMiss(r, env, days) ==
    /\ world.impl = "supabase" => (env.hasUrl /\ env.hasKey)
    /\ ~cacheHit(cache, days, clock)
    /\ rq' = [rq EXCEPT ![r] = [IdleRequest EXCEPT
                                  !.pc = "symbols", !.env = env,
                                  !.slot = cache,
                                  !.days = days,
                                  !.now = clock]]
    /\ log' = Append(log, Began(r, days, FALSE))
    /\ UNCHANGED cache

\* a request arrives: days = parseInt(searchParams.get('days') || '7')
Start(r) ==
    /\ r \in world.clients
    /\ rq[r].pc \in {"idle", "done"}
    /\ budget.requests > 0
    /\ budget' = Spend("requests", 1)
    /\ \E env \in world.envPool, days \in world.daysPool :
         \/ StartMissingConfig(r, env, days)
         \/ StartCacheHit(r, env, days)
         \/ StartCacheMiss(r, env, days)
    /\ UNCHANGED <<world, clock>>
    /\ UNCHANGED <<deriveVars, readVars, tableVars, dashVars>>

\* route.ts:264-271: the symbols of funding_rates, sorted; an error is thrown
\* to the request boundary
FetchSymbols(r) ==
    /\ rq[r].pc = "symbols"
    /\ \/ /\ rq' = [rq EXCEPT
                      ![r].symbols = sortedDistinct({row.symbol :
                                                      row \in world.db}),
                      ![r].queries = @ + 1,
                      ![r].pc = "exchanges"]
          /\ UNCHANGED <<budget, log>>
       \/ /\ budget.faults > 0
          /\ budget' = Spend("faults", 1)
          /\ rq' = [rq EXCEPT
                      ![r].pc = "done",
                      ![r].failedCalls = @ \cup {Call("symbols", <<>>, <<>>)},
                      ![r].queries = @ + 1,
                      ![r].response = InternalError(world.impl,
                                                    "symbols query failed")]
          /\ log' = Append(log, Ended(r, rq[r].days, FALSE, 500, FALSE))
    /\ UNCHANGED <<world, clock, cache>>
    /\ UNCHANGED <<deriveVars, readVars, tableVars, dashVars>>

\* route.ts:273-280: the exchanges of funding_rates, sorted
FetchExchanges(r) ==
    /\ rq[r].pc = "exchanges"
    /\ \/ /\ rq' = [rq EXCEPT
                      ![r].exchanges = sortedDistinct({row.exchange :
                                                        row \in world.db}),
                      ![r].queries = @ + 1,
                      ![r].pc = "aux"]
          /\ UNCHANGED <<budget, log>>
       \/ /\ budget.faults > 0
          /\ budget' = Spend("faults", 1)
          /\ rq' = [rq EXCEPT
                      ![r].pc = "done",
                      ![r].failedCalls = @ \cup {Call("exchanges", <<>>, <<>>)},
                      ![r].queries = @ + 1,
                      ![r].response = InternalError(world.impl,
                                                    "exchanges query failed")]
          /\ log' = Append(log, Ended(r, rq[r].days, FALSE, 500, FALSE))
    /\ UNCHANGED <<world, clock, cache>>
    /\ UNCHANGED <<deriveVars, readVars, tableVars, dashVars>>

BoolToNat(b) == IF b THEN 1 ELSE 0

\* mutant: a failing read of the three is thrown to the request boundary
FetchAuxPropagates(r) ==
    /\ rq[r].pc = "aux"
    /\ \E fs, fk, fo \in BOOLEAN :
         LET n == BoolToNat(fs) + BoolToNat(fk) + BoolToNat(fo)
         IN  /\ n <= budget.faults
             /\ budget' = Spend("faults", n)
             /\ rq' = [rq EXCEPT
                         ![r].exchangeStatus =
                             getExchangeStatus(fs, world.statusRows),
                         ![r].stockSymbols =
                             getStockSymbols(fk, world.stockRows),
                         ![r].oiData = getOIData(world.impl, fo, world.oiRows),
                         ![r].failedCalls =
                             @ \cup (IF fs THEN {Call("status", <<>>, <<>>)} ELSE {})
                               \cup (IF fk THEN {Call("stock", <<>>, <<>>)} ELSE {})
                               \cup (IF fo THEN {Call("oi", <<>>, <<>>)} ELSE {}),
                         ![r].queries = @ + 3,
                         ![r].endTime = clock,
                         ![r].matrix = <<>>,
                         ![r].i = 0,
                         ![r].response =
                             IF n > 0
                             THEN InternalError(world.impl, "read failed")
                             ELSE @,
                         ![r].pc = IF n > 0 THEN "done" ELSE "batch"]
             /\ log' = IF n > 0
                       THEN Append(log, Ended(r, rq[r].days, FALSE, 500,
                                              FALSE))
                       ELSE log
    /\ UNCHANGED <<world, clock, cache>>
    /\ UNCHANGED <<deriveVars, readVars, tableVars, dashVars>>

\* route.ts:282-289: status, stock symbols and open interest together, then
\* endTime = new Date() and an empty matrix
FetchAux(r) ==
    /\ rq[r].pc = "aux"
    /\ \E fs, fk, fo \in BOOLEAN :
         LET n == BoolToNat(fs) + BoolToNat(fk) + BoolToNat(fo)
         IN  /\ n <= budget.faults
             /\ budget' = Spend("faults", n)
             /\ rq' = [rq EXCEPT
                         ![r].exchangeStatus =
                             getExchangeStatus(fs, world.statusRows),
                         ![r].stockSymbols =
                             getStockSymbols(fk, world.stockRows),
                         ![r].oiData = getOIData(world.impl, fo, world.oiRows),
                         ![r].failedCalls =
                             @ \cup (IF fs THEN {Call("status", <<>>, <<>>)} ELSE {})
                               \cup (IF fk THEN {Call("stock", <<>>, <<>>)} ELSE {})
                               \cup (IF fo THEN {Call("oi", <<>>, <<>>)} ELSE {}),
                         ![r].queries = @ + 3,
                         ![r].endTime = clock,
                         ![r].matrix = <<>>,
                         ![r].i = 0,
                         ![r].pc = "batch"]
    /\ UNCHANGED <<world, clock, cache, log>>
    /\ UNCHANGED <<deriveVars, readVars, tableVars, dashVars>>

\* route.ts:292-297: the next batch of at most 10 symbols is started
StartBatch(r) ==
    /\ rq[r].pc = "batch"
    /\ rq[r].i < Len(rq[r].symbols)
    /\ rq' = [rq EXCEPT
                ![r].batch = SubSeq(rq[r].symbols, rq[r].i + 1,
                                    IF rq[r].i + batchSize < Len(rq[r].symbols)
                                    THEN rq[r].i + batchSize
                                    ELSE Len(rq[r].symbols)),
                ![r].results = <<>>,
                ![r].started = @ \o SubSeq(rq[r].symbols, rq[r].i + 1,
                                    IF rq[r].i + batchSize < Len(rq[r].symbols)
                                    THEN rq[r].i + batchSize
                                    ELSE Len(rq[r].symbols)),
                ![r].rounds = @ + 1,
                ![r].pc = "await"]
    /\ UNCHANGED <<world, budget, clock, cache, log>>
    /\ UNCHANGED <<deriveVars, readVars, tableVars, dashVars>>

\* what the reference-timestamp RPC may answer
RefOutcomes ==
    {[ok |-> FALSE, rows |-> <<>>]}
      \cup {[ok |-> TRUE, rows |-> rows] : rows \in world.refPool}

\* one processSymbolData call of the batch in flight completes
ProcessSymbol(r, symbol) ==
    /\ rq[r].pc = "await"
    /\ symbol \in Range(rq[r].batch)
    /\ symbol \notin DOMAIN rq[r].results
    /\ \E refOutcome \in RefOutcomes,
          failedSet \in SUBSET Range(rq[r].exchanges) :
         LET endTime == Int2Num(rq[r].endTime)
             noQuery == ToISOStringThrows(startTimeOf(endTime, rq[r].days))
             n == BoolToNat(~refOutcome.ok) + Cardinality(failedSet)
             data == processSymbolData(world.impl, world.db, refOutcome,
                                       failedSet, symbol, rq[r].exchanges,
                                       endTime, rq[r].days)
         IN  /\ n <= budget.faults
             \* no query leaves the process when its arguments cannot be built
             /\ noQuery => (n = 0 /\ refOutcome.rows = <<>>)
             /\ budget' = Spend("faults", n)
             /\ rq' = [rq EXCEPT
                         ![r].results = @ @@ (symbol :> data),
                         ![r].windows = (symbol :>
                             windowOf(refOutcome, endTime, rq[r].days)) @@ @,
                         ![r].rateFailed = (symbol :> failedSet) @@ @,
                         ![r].refRows = (symbol :> refOutcome.rows) @@ @,
                         ![r].actualDays = (symbol :>
                             actualDaysUsed(world.impl, failedSet,
                               rq[r].exchanges,
                               windowOf(refOutcome, endTime, rq[r].days)))
                             @@ @,
                         ![r].queries =
                             IF noQuery THEN @
                             ELSE @ + 1 + Len(rq[r].exchanges),
                         ![r].failedCalls =
                             @ \cup (IF refOutcome.ok THEN {}
                                     ELSE {Call("reference", symbol, <<>>)})
                               \cup {Call("rates", symbol, exchange) :
                                       exchange \in failedSet}]
    /\ UNCHANGED <<world, clock, cache, log>>
    /\ UNCHANGED <<deriveVars, readVars, tableVars, dashVars>>

\* mutant: the loop goes on as soon as one call of the batch has completed
CollectBatchFirstSettled(r) ==
    /\ rq[r].pc = "await"
    /\ \/ DOMAIN rq[r].results # {}
       \/ rq[r].batch = <<>>
    /\ rq' = [rq EXCEPT
                ![r].matrix = rq[r].results @@ @,
                ![r].i = @ + batchSize,
                ![r].pc = "batch"]
    /\ UNCHANGED <<world, budget, clock, cache, log>>
    /\ UNCHANGED <<deriveVars, readVars, tableVars, dashVars>>

\* route.ts:299-303: the batch is complete, its rows enter the matrix
CollectBatch(r) ==
    /\ rq[r].pc = "await"
    /\ Range(rq[r].batch) \subseteq DOMAIN rq[r].results
    /\ rq' = [rq EXCEPT
                ![r].matrix = rq[r].results @@ @,
                ![r].i = @ + batchSize,
                ![r].pc = "batch"]
    /\ UNCHANGED <<world, budget, clock, cache, log>>
    /\ UNCHANGED <<deriveVars, readVars, tableVars, dashVars>>

\* mutant: the answer is returned without being stored in the slot
FinishWithoutStore(r) ==
    /\ rq[r].pc = "batch"
    /\ rq[r].i >= Len(rq[r].symbols)
    /\ LET m == findBestWorstCells(rq[r].matrix, rq[r].symbols,
                                   rq[r].exchanges)
           arb == calculateArbitrageOpportunities(m, rq[r].symbols,
                                                  rq[r].exchanges)
           responseData == ResponseData(m, rq[r].exchanges,
                               rq[r].exchangeStatus, rq[r].oiData,
                               rq[r].stockSymbols, arb)
       IN  /\ cache' = cache
           /\ rq' = [rq EXCEPT
                       ![r].matrix = m,
                       ![r].response = [status |-> 200, body |-> responseData],
                       ![r].pc = "done"]
           /\ log' = Append(log, Ended(r, rq[r].days, FALSE, 200, TRUE))
    /\ UNCHANGED <<world, budget, clock>>
    /\ UNCHANGED <<deriveVars, readVars, tableVars, dashVars>>

\* route.ts:306-321: annotate, derive, assemble, store in the slot, answer
Finish(r) ==
    /\ rq[r].pc = "batch"
    /\ rq[r].i >= Len(rq[r].symbols)
    /\ LET m == findBestWorstCells(rq[r].matrix, rq[r].symbols,
                                   rq[r].exchanges)
           arb == calculateArbitrageOpportunities(m, rq[r].symbols,
                                                  rq[r].exchanges)
           responseData == ResponseData(m, rq[r].exchanges,
                               rq[r].exchangeStatus, rq[r].oiData,
                               rq[r].stockSymbols, arb)
       IN  /\ cache' = [present |-> TRUE, data |-> responseData,
                        timestamp |-> rq[r].now, days |-> rq[r].days]
           /\ rq' = [rq EXCEPT
                       ![r].matrix = m,
                       ![r].response = [status |-> 200, body |-> responseData],
                       ![r].pc = "done"]
           /\ log' = Append(log, Ended(r, rq[r].days, FALSE, 200, TRUE))
    /\ UNCHANGED <<world, budget, clock>>
    /\ UNCHANGED <<deriveVars, readVars, tableVars, dashVars>>

\* time passes: just under, or exactly, the cache's time to live
Tick ==
    /\ budget.ticks > 0
    /\ budget' = Spend("ticks", 1)
    /\ \E dt \in {CACHE_TTL - 1, CACHE_TTL} : clock' = clock + dt
    /\ UNCHANGED <<world, cache, rq, log>>
    /\ UNCHANGED <<deriveVars, readVars, tableVars, dashVars>>

\* some call of the batch in flight completes
ProcessSymbolStep(r) ==
    \E symbol \in Range(rq[r].batch) : ProcessSymbol(r, symbol)

Next ==
    \/ \E r \in Requests : Start(r)
    \/ \E r \in Requests : FetchSymbols(r)
    \/ \E r \in Requests : FetchExchanges(r)
    \/ \E r \in Requests : FetchAux(r)
    \/ \E r \in Requests : StartBatch(r)
    \/ \E r \in Requests : ProcessSymbolStep(r)
    \/ \E r \in Requests : CollectBatch(r)
    \/ \E r \in Requests : Finish(r)
    \/ Tick

Spec == Init /\ [][Next]_vars

-----------------------------------------------------------------------------
(* Requests that overlap: SpecConcurrent *)

\* one symbol on one exchange, a row inside the last day and a row outside it:
\* the answers for days = 1 and days = 7 differ
TwoWindowTable ==
    {FundingRow(ExB, BTC, 4 * DAY, Num(1, 1000)),
     FundingRow(ExB, BTC, 9 * DAY + 720, Num(2, 1000))}

\* two invocations of GET may be between awaits at the same time
ConcurrentWorlds ==
    {[World(impl, {Env(TRUE, TRUE)}, TwoWindowTable,
            {Int2Num(1), Int2Num(7)}, {<<>>})
        EXCEPT !.clients = Requests] : impl \in {"supabase", "pg"}}

\* one invocation after the other, with data-source faults
FaultyWorlds ==
    {World(impl, {Env(TRUE, TRUE)}, TwoWindowTable,
           {NaN, Int2Num(1), Int2Num(7)}, {<<>>}) : impl \in {"supabase", "pg"}}

InitConcurrent ==
    /\ \/ /\ world \in ConcurrentWorlds
          /\ budget = [requests |-> MaxOverlapping, faults |-> 0,
                       ticks |-> MaxTicks]
       \/ /\ world \in FaultyWorlds
          /\ budget = [requests |-> MaxOverlapping, faults |-> MaxFaults,
                       ticks |-> MaxTicks]
    /\ clock = Now0
    /\ cache = NoCache
    /\ rq = [r \in Requests |-> IdleRequest]
    /\ log = <<>>
    /\ reads = <<>>
    /\ table = <<>>
    /\ dash = <<>>
    /\ matrix = <<>>
    /\ symbols = <<>>
    /\ exchanges = <<>>
    /\ annotated = FALSE
    /\ candidates = <<>>
    /\ considered = <<>>
    /\ opportunities = <<>>
    /\ derived = FALSE

SpecConcurrent == InitConcurrent /\ [][Next]_vars

-----------------------------------------------------------------------------
(* Many symbols, one request: SpecBatches *)

\* the k-th symbol of the table, in sorted order
SymbolName(k) ==
    IF k <= 12 THEN <<"A", Alphabet[k + 1]>> ELSE <<"B", Alphabet[k - 11]>>

\* n symbols on one exchange, one row each
BatchTable(n) ==
    {FundingRow(ExB, SymbolName(k), 9 * DAY, Num(k, 1000)) : k \in 1..n}

\* no symbol, exactly one full batch, two full batches and one symbol more
BatchWorlds ==
    {World(impl, {Env(TRUE, TRUE)}, BatchTable(n), {Int2Num(7)}, {<<>>}) :
       impl \in {"supabase", "pg"},
       n \in {0, batchSize, MaxSymbols}}

\* two symbols, with data-source faults
SmallBatchWorlds ==
    {World(impl, {Env(TRUE, TRUE)}, BatchTable(2), {Int2Num(7)}, {<<>>}) :
       impl \in {"supabase", "pg"}}

InitBatches ==
    /\ \/ /\ world \in BatchWorlds
          /\ budget = [requests |-> 1, faults |-> 0, ticks |-> MaxTicks]
       \/ /\ world \in SmallBatchWorlds
          /\ budget = [requests |-> 1, faults |-> MaxFaults,
                       ticks |-> MaxTicks]
    /\ clock = Now0
    /\ cache = NoCache
    /\ rq = [r \in Requests |-> IdleRequest]
    /\ log = <<>>
    /\ reads = <<>>
    /\ table = <<>>
    /\ dash = <<>>
    /\ matrix = <<>>
    /\ symbols = <<>>
    /\ exchanges = <<>>
    /\ annotated = FALSE
    /\ candidates = <<>>
    /\ considered = <<>>
    /\ opportunities = <<>>
    /\ derived = FALSE

SpecBatches == InitBatches /\ [][Next]_vars

-----------------------------------------------------------------------------
(* getOIData and getExchangeStatus on their own: SpecReads *)

\* oi_usd of a row: 0, a text parseFloat cannot read, two amounts
OiValues == {Int2Num(0), NaN, Int2Num(80), Int2Num(100)}

\* oi_data ordered by timestamp descending, one row a day
OiTables ==
    {[i \in 1..Len(f) |-> OiRow(f[i][1], f[i][2], (Len(f) - i + 1) * DAY)] :
       f \in UNION {[1..n -> {BTC, ETH} \X OiValues] : n \in 0..MaxOiRows}}

HoursPool ==
    {Int2Num(-1), Int2Num(0), Num(3, 2), Int2Num(2), Num(599, 100),
     Int2Num(6), Int2Num(7)}

\* the rows of get_exchange_status
StatusTables ==
    {[i \in 1..Len(f) |->
        [exchange |-> f[i][1], hours_since_update |-> f[i][2],
         last_update |-> "2024-01-01T00:00:00Z", symbol_count |-> i]] :
       f \in UNION {[1..n -> {ExB, ExHlC} \X HoursPool] :
                     n \in 0..MaxStatusRows}}

InitReads ==
    /\ \E impl \in {"supabase", "pg"} :
         \/ \E rows \in OiTables :
              reads = [impl |-> impl, oiRows |-> rows, statusRows |-> <<>>,
                       oiDone |-> FALSE, oiFailed |-> FALSE, oiData |-> <<>>,
                       statusDone |-> FALSE, statusFailed |-> FALSE,
                       exchangeStatus |-> <<>>]
         \/ \E rows \in StatusTables :
              reads = [impl |-> impl, oiRows |-> <<>>, statusRows |-> rows,
                       oiDone |-> FALSE, oiFailed |-> FALSE, oiData |-> <<>>,
                       statusDone |-> FALSE, statusFailed |-> FALSE,
                       exchangeStatus |-> <<>>]
    /\ matrix = <<>>
    /\ symbols = <<>>
    /\ exchanges = <<>>
    /\ annotated = FALSE
    /\ candidates = <<>>
    /\ considered = <<>>
    /\ opportunities = <<>>
    /\ derived = FALSE
    /\ world = <<>>
    /\ budget = <<>>
    /\ clock = 0
    /\ cache = <<>>
    /\ rq = <<>>
    /\ log = <<>>
    /\ table = <<>>
    /\ dash = <<>>

\* getOIData() runs; the query may fail
ReadOI ==
    /\ ~reads.oiDone
    /\ \E failed \in BOOLEAN :
         reads' = [reads EXCEPT
                     !.oiDone = TRUE,
                     !.oiFailed = failed,
                     !.oiData = getOIData(reads.impl, failed, reads.oiRows)]
    /\ UNCHANGED <<deriveVars, serverVars, tableVars, dashVars>>

\* getExchangeStatus() runs; the RPC may fail
ReadStatus ==
    /\ ~reads.statusDone
    /\ \E failed \in BOOLEAN :
         reads' = [reads EXCEPT
                     !.statusDone = TRUE,
                     !.statusFailed = failed,
                     !.exchangeStatus =
                         getExchangeStatus(failed, reads.statusRows)]
    /\ UNCHANGED <<deriveVars, serverVars, tableVars, dashVars>>

NextReads == ReadOI \/ ReadStatus

SpecReads == InitReads /\ [][NextReads]_vars

-----------------------------------------------------------------------------
(* DashboardContent and ArbitrageTable: SpecTable *)

\* String.prototype.toLowerCase on one character
ToLowerChar(c) ==
    CASE c = "A" -> "a" [] c = "B" -> "b" [] c = "C" -> "c" [] c = "D" -> "d"
      [] c = "E" -> "e" [] c = "F" -> "f" [] c = "G" -> "g" [] c = "H" -> "h"
      [] c = "I" -> "i" [] c = "L" -> "l" [] c = "S" -> "s" [] c = "T" -> "t"
      [] OTHER -> c

toLowerCase(str) == [i \in 1..Len(str) |-> ToLowerChar(str[i])]

\* String.prototype.includes
StringIncludes(str, part) ==
    \E i \in 0..(Len(str) - Len(part)) : SubSeq(str, i + 1, i + Len(part)) = part

\* oiData[key] || 0, oiData an object read as its entries in key order
oiOf(oiData, key) ==
    IF \E i \in 1..Len(oiData) : oiData[i].symbol = key
    THEN (CHOOSE e \in Range(oiData) : e.symbol = key).value
    ELSE 0

\* Object.keys(oiData)
oiKeys(oiData) == [i \in 1..Len(oiData) |-> oiData[i].symbol]

\* .sort((a, b) => (oiData[b] || 0) - (oiData[a] || 0)), a stable sort
RECURSIVE insertByOI(_, _, _)
insertByOI(oiData, sorted, x) ==
    IF sorted = <<>> THEN <<x>>
    ELSE IF oiOf(oiData, x) - oiOf(oiData, Head(sorted)) > 0
         THEN <<x>> \o sorted
         ELSE <<Head(sorted)>> \o insertByOI(oiData, Tail(sorted), x)

RECURSIVE sortByOI(_, _, _, _)
sortByOI(oiData, keys, i, acc) ==
    IF i > Len(keys) THEN acc
    ELSE sortByOI(oiData, keys, i + 1, insertByOI(oiData, acc, keys[i]))

Top10 == 10

\* Object.keys(oiData).sort(...).slice(0, 10)
top10Symbols(oiData) ==
    slice0(sortByOI(oiData, oiKeys(oiData), 1, <<>>), Top10)

\* part_002:155-171, the test of one symbol
symbolPasses(data, ui, symbol) ==
    /\ ~(ui.searchTerm # <<>>
          /\ ~StringIncludes(toLowerCase(symbol), toLowerCase(ui.searchTerm)))
    /\ ~(ui.stocksOnly /\ ~Includes(data.stockSymbols, symbol))
    /\ ~(ui.top10OI /\ ~Includes(top10Symbols(data.oiData), symbol))

\* Array.prototype.filter over the keys of data.matrix
RECURSIVE filterSymbols(_, _, _, _)
filterSymbols(data, ui, keys, i) ==
    IF i > Len(keys) THEN <<>>
    ELSE (IF symbolPasses(data, ui, keys[i]) THEN <<keys[i]>> ELSE <<>>)
           \o filterSymbols(data, ui, keys, i + 1)

filteredSymbols(data, ui) == filterSymbols(data, ui, data.matrixKeys, 1)

\* selectedExchanges.some(ex => ex === name ||
\*                              ex.toLowerCase() === name.toLowerCase())
someSelected(selectedExchanges, name) ==
    \E i \in 1..Len(selectedExchanges) :
      \/ selectedExchanges[i] = name
      \/ toLowerCase(selectedExchanges[i]) = toLowerCase(name)

\* mutant: one selected side is enough
oppPassesEitherSide(data, ui, fsyms, opp) ==
    /\ ~(~someSelected(ui.selectedExchanges, opp.longExchange)
          /\ ~someSelected(ui.selectedExchanges, opp.shortExchange))
    /\ ~(ui.stocksOnly /\ ~Includes(data.stockSymbols, opp.symbol))
    /\ ~(ui.top10OI /\ ~Includes(top10Symbols(data.oiData), opp.symbol))
    /\ Includes(fsyms, opp.symbol)

\* part_000:61-77, the test of one opportunity
oppPasses(data, ui, fsyms, opp) ==
    /\ ~(~someSelected(ui.selectedExchanges, opp.longExchange)
          \/ ~someSelected(ui.selectedExchanges, opp.shortExchange))
    /\ ~(ui.stocksOnly /\ ~Includes(data.stockSymbols, opp.symbol))
    /\ ~(ui.top10OI /\ ~Includes(top10Symbols(data.oiData), opp.symbol))
    /\ Includes(fsyms, opp.symbol)

RECURSIVE filterOpportunities(_, _, _, _, _)
filterOpportunities(data, ui, fsyms, opps, i) ==
    IF i > Len(opps) THEN <<>>
    ELSE (IF oppPasses(data, ui, fsyms, opps[i]) THEN <<opps[i]>> ELSE <<>>)
           \o filterOpportunities(data, ui, fsyms, opps, i + 1)

\* what ArbitrageTable lists for the data and the state of the controls
filteredOpportunities(data, ui) ==
    filterOpportunities(data, ui, filteredSymbols(data, ui),
                        data.arbitrageOpportunities, 1)

OiEntry(symbol, value) == [symbol |-> symbol, value |-> value]

\* nine symbols with open interest 100 down to 92
Fillers ==
    <<OiEntry(<<"A">>, 100), OiEntry(<<"C">>, 99), OiEntry(<<"D">>, 98),
      OiEntry(<<"F">>, 97), OiEntry(<<"G">>, 96), OiEntry(<<"I">>, 95),
      OiEntry(<<"L">>, 94), OiEntry(<<"S">>, 93), OiEntry(<<"A", "A">>, 92)>>

\* oiData of a response: eleven symbols with BTC and ETH around the tenth
\* place, ten symbols without BTC, two symbols
OiDatas ==
    {Fillers \o <<OiEntry(ETH, e), OiEntry(BTC, b)>> :
       e \in {91, 200}, b \in {0, 91, 95}}
    \cup {Fillers \o <<OiEntry(BTC, b), OiEntry(ETH, 91)>> :
            b \in {0, 91, 95}}
    \cup {Fillers \o <<OiEntry(ETH, 91)>>,
          <<OiEntry(ETH, 0), OiEntry(BTC, 5)>>}

Opportunity(symbol, long, short, longRate, shortRate) ==
    [symbol |-> symbol, longExchange |-> long, shortExchange |-> short,
     longRate |-> Int2Num(longRate), shortRate |-> Int2Num(shortRate),
     netCollection |-> Int2Num(shortRate - longRate)]

\* display names of the raw exchanges b, hl-C and hl-c
TableExchanges == <<<<"B">>, <<"H", "L", "-", "C">>, <<"H", "L", "-", "c">>>>

TableOpportunities ==
    <<Opportunity(BTC, TableExchanges[1], TableExchanges[3], 1, 9),
      Opportunity(ETH, TableExchanges[2], TableExchanges[1], 2, 8),
      Opportunity(<<"A">>, TableExchanges[3], TableExchanges[2], 3, 7),
      Opportunity(ETH, TableExchanges[1], TableExchanges[1], 4, 6)>>

\* the part of a response document the table reads
TableDatas ==
    {[matrixKeys |-> <<<<"A">>, BTC, ETH>>,
      exchanges |-> TableExchanges,
      stockSymbols |-> stocks,
      oiData |-> oi,
      arbitrageOpportunities |-> TableOpportunities] :
       stocks \in {<<>>, <<ETH>>}, oi \in OiDatas}

SearchTerms == {<<>>, <<"t">>, <<"B", "T">>}

\* useState defaults of DashboardContent; data is null
InitTable ==
    /\ table = [loaded |-> FALSE, data |-> <<>>,
                ui |-> [searchTerm |-> <<>>, selectedExchanges |-> <<>>,
                        stocksOnly |-> FALSE, top10OI |-> FALSE],
                shown |-> <<>>]
    /\ matrix = <<>>
    /\ symbols = <<>>
    /\ exchanges = <<>>
    /\ annotated = FALSE
    /\ candidates = <<>>
    /\ considered = <<>>
    /\ opportunities = <<>>
    /\ derived = FALSE
    /\ world = <<>>
    /\ budget = <<>>
    /\ clock = 0
    /\ cache = <<>>
    /\ rq = <<>>
    /\ log = <<>>
    /\ reads = <<>>
    /\ dash = <<>>

\* a state of the controls is set and the table renders again
Render(data, ui) ==
    /\ table' = [loaded |-> TRUE, data |-> data, ui |-> ui,
                 shown |-> filteredOpportunities(data, ui)]
    /\ UNCHANGED <<deriveVars, serverVars, readVars, dashVars>>

\* fetchData: setData(result), and setSelectedExchanges(result.exchanges)
\* while nothing is selected
FetchData ==
    /\ ~table.loaded
    /\ \E data \in TableDatas :
         Render(data,
                [table.ui EXCEPT
                   !.selectedExchanges =
                       IF Len(@) = 0 /\ Len(data.exchanges) > 0
                       THEN data.exchanges ELSE @])

\* onExchangeToggle
ToggleExchange ==
    /\ table.loaded
    /\ \E exchange \in Range(table.data.exchanges) :
         Render(table.data,
                [table.ui EXCEPT
                   !.selectedExchanges =
                       IF Includes(@, exchange)
                       THEN SelectSeq(@, LAMBDA e : e # exchange)
                       ELSE Append(@, exchange)])

\* onStocksOnlyToggle(e.target.checked)
ToggleStocksOnly ==
    /\ table.loaded
    /\ Render(table.data, [table.ui EXCEPT !.stocksOnly = ~@])

\* onTop10OIToggle(e.target.checked)
ToggleTop10OI ==
    /\ table.loaded
    /\ Render(table.data, [table.ui EXCEPT !.top10OI = ~@])

\* setSearchTerm(e.target.value)
SetSearchTerm ==
    /\ table.loaded
    /\ \E term \in SearchTerms :
         Render(table.data, [table.ui EXCEPT !.searchTerm = term])

NextTable ==
    \/ FetchData
    \/ ToggleExchange
    \/ ToggleStocksOnly
    \/ ToggleTop10OI
    \/ SetSearchTerm

SpecTable == InitTable /\ [][NextTable]_vars

-----------------------------------------------------------------------------
(* The dashboard's fetches: SpecDashboard *)

\* three of the timeframes of the bar
Timeframes == {1, 7, 30}

NoData == [days |-> 0, exchanges |-> <<>>]

\* what GET /api/funding-rates?days=d answers, as the client holds it
ResponseFor(d) == [days |-> d, exchanges |-> <<"B">>]

InitDashboard ==
    /\ \E d \in Timeframes :
         dash = [days |-> d, history |-> <<d>>, effectPending |-> TRUE,
                 data |-> NoData, loading |-> TRUE, error |-> FALSE,
                 selectedExchanges |-> <<>>,
                 fetches |-> {}, issued |-> 0,
                 raced |-> FALSE, failed |-> 0, navigations |-> 0]
    /\ matrix = <<>>
    /\ symbols = <<>>
    /\ exchanges = <<>>
    /\ annotated = FALSE
    /\ candidates = <<>>
    /\ considered = <<>>
    /\ opportunities = <<>>
    /\ derived = FALSE
    /\ world = <<>>
    /\ budget = <<>>
    /\ clock = 0
    /\ cache = <<>>
    /\ rq = <<>>
    /\ log = <<>>
    /\ reads = <<>>
    /\ table = <<>>

\* fetchData up to its first await: setLoading(true), setError(null), the
\* request for the days of this render leaves
fetchDataBegin(d) ==
    [d EXCEPT !.loading = TRUE,
              !.error = FALSE,
              !.fetches = @ \cup {[id |-> d.issued + 1, days |-> d.days]},
              !.issued = @ + 1]

\* the URL now says newDays: the next render reads it, the effect on [days]
\* is due when it changed
withDays(d, newDays) ==
    [d EXCEPT !.days = newDays,
              !.effectPending = @ \/ newDays # d.days,
              !.raced = @ \/ (newDays # d.days /\ d.fetches # {}),
              !.navigations = @ + 1]

\* useEffect(() => { fetchData() }, [days])
EffectOnDays ==
    /\ dash.effectPending
    /\ dash.issued < MaxFetches
    /\ dash' = [fetchDataBegin(dash) EXCEPT !.effectPending = FALSE]
    /\ UNCHANGED <<deriveVars, serverVars, readVars, tableVars>>

\* the Retry button of the error screen
RetryClick ==
    /\ ~dash.loading
    /\ dash.error
    /\ dash.issued < MaxFetches
    /\ dash' = fetchDataBegin(dash)
    /\ UNCHANGED <<deriveVars, serverVars, readVars, tableVars>>

\* a timeframe of the bar is clicked; the bar is rendered only with data, no
\* error and loading false
handleTimeframeChange ==
    /\ ~dash.loading
    /\ ~dash.error
    /\ dash.data # NoData
    /\ dash.navigations < MaxNavigations
    /\ \E newDays \in Timeframes :
         dash' = [withDays(dash, newDays) EXCEPT
                    !.history = Append(@, newDays)]
    /\ UNCHANGED <<deriveVars, serverVars, readVars, tableVars>>

\* the browser goes back one entry of the history router.push has made
HistoryBack ==
    /\ Len(dash.history) > 1
    /\ dash.navigations < MaxNavigations
    /\ dash' = [withDays(dash, dash.history[Len(dash.history) - 1]) EXCEPT
                  !.history = SubSeq(@, 1, Len(@) - 1)]
    /\ UNCHANGED <<deriveVars, serverVars, readVars, tableVars>>

\* a request in flight is answered with 200: setData(result), the exchanges
\* selected when none was, setLoading(false)
FetchFulfilled ==
    /\ \E f \in dash.fetches :
         dash' = [dash EXCEPT
                    !.data = ResponseFor(f.days),
                    !.selectedExchanges =
                        IF Len(@) = 0 /\ Len(ResponseFor(f.days).exchanges) > 0
                        THEN ResponseFor(f.days).exchanges
                        ELSE @,
                    !.loading = FALSE,
                    !.fetches = @ \ {f}]
    /\ UNCHANGED <<deriveVars, serverVars, readVars, tableVars>>

\* a request in flight fails or is answered with another status:
\* setError(message), setLoading(false)
FetchFailed ==
    /\ \E f \in dash.fetches :
         dash' = [dash EXCEPT
                    !.error = TRUE,
                    !.loading = FALSE,
                    !.failed = @ + 1,
                    !.fetches = @ \ {f}]
    /\ UNCHANGED <<deriveVars, serverVars, readVars, tableVars>>

NextDashboard ==
    \/ EffectOnDays
    \/ RetryClick
    \/ handleTimeframeChange
    \/ HistoryBack
    \/ FetchFulfilled
    \/ FetchFailed

SpecDashboard == InitDashboard /\ [][NextDashboard]_vars

-----------------------------------------------------------------------------
(* Claims about the matrix builder and the response document (Spec) *)

\* request r computed its answer (a 200 that did not come from the slot)
Computed(r) ==
    rq[r].pc = "done" /\ rq[r].response.status = 200 /\ ~rq[r].hit

\* the funding_rates rows of a pair inside the window resolved for its symbol
ObservationsOf(r, symbol, exchange) ==
    rowsInWindow(world.db, exchange, symbol,
                 rq[r].windows[symbol].start, rq[r].windows[symbol].end)

\* C8: a (symbol, exchange) pair without a funding observation inside the
\* resolved window has no entry in the matrix the request builds.
C8_NoObservationNoEntry ==
    \A r \in Requests :
      Computed(r) =>
        \A symbol \in Range(rq[r].symbols) :
          \A exchange \in Range(rq[r].exchanges) :
            ObservationsOf(r, symbol, exchange) = {} =>
              ~HasCell(rq[r].response.body.matrix, symbol, exchange)

DisplayNames(r) ==
    {getExchangeDisplayName(e) : e \in Range(rq[r].exchanges)}

\* C9: in the response the keys of every matrix row, the keys of
\* exchangeStatus, the entries of exchanges and the long/short exchange of
\* every opportunity are display names of the raw exchange keys, so that the
\* i-th name of exchanges finds in matrix[symbol] the cell built for the i-th
\* raw exchange, as FundingMatrix looks it up.
C9_DisplayNamesEverywhere ==
    \A r \in Requests :
      Computed(r) =>
        LET body == rq[r].response.body
        IN  /\ \A symbol \in DOMAIN body.matrix :
                 DOMAIN body.matrix[symbol] \subseteq DisplayNames(r)
            /\ DOMAIN body.exchangeStatus \subseteq DisplayNames(r)
            /\ Range(body.exchanges) = DisplayNames(r)
            /\ \A i \in 1..Len(body.arbitrageOpportunities) :
                 /\ body.arbitrageOpportunities[i].longExchange
                      \in DisplayNames(r)
                 /\ body.arbitrageOpportunities[i].shortExchange
                      \in DisplayNames(r)
            /\ \A i \in 1..Len(rq[r].exchanges) :
                 \A symbol \in Range(rq[r].symbols) :
                   HasCell(rq[r].matrix, symbol, rq[r].exchanges[i]) =>
                     fundingMatrixHasCell(body.matrix, symbol,
                                          body.exchanges[i])

\* the cell a pair's own rate sum gives over window w
ComputedFromOwnSum(cell, r, symbol, exchange) ==
    LET w == rq[r].windows[symbol]
        rateSum == sumRates(ObservationsOf(r, symbol, exchange))
    IN  /\ cell.rawPercent = Mul(rateSum, Int2Num(100))
        /\ Mul(cell.apr, actualDaysOf(w)) = Mul(cell.rawPercent, Int2Num(365))

IsDefaultCell(cell) ==
    cell.apr = Int2Num(0) /\ cell.rawPercent = Int2Num(0)

SomeRateQueryFailed(r) ==
    \E symbol \in DOMAIN rq[r].rateFailed : rq[r].rateFailed[symbol] # {}

ResponseFields ==
    {"matrix", "exchanges", "exchangeStatus", "oiData", "stockSymbols",
     "arbitrageOpportunities"}

\* C10: when the rate query of a pair fails, that pair's cell is apr = 0,
\* rawPercent = 0, every other pair of the request has the cell computed from
\* its own rate sum, and the request ends with a full 200 response, never
\* with an error.
C10_FailedPairDefaultsOthersComputed ==
    \A r \in Requests :
      /\ \A symbol \in DOMAIN rq[r].results :
           \A exchange \in Range(rq[r].exchanges) :
             LET cell == rq[r].results[symbol][exchange]
             IN  IF exchange \in rq[r].rateFailed[symbol]
                 THEN IsDefaultCell(cell)
                 ELSE SomeRateQueryFailed(r) =>
                        ComputedFromOwnSum(cell, r, symbol, exchange)
      /\ (SomeRateQueryFailed(r) /\ rq[r].pc = "done") =>
           /\ rq[r].response.status = 200
           /\ DOMAIN rq[r].response.body = ResponseFields
           /\ \A symbol \in Range(rq[r].symbols) :
                \A exchange \in Range(rq[r].exchanges) :
                  LET m == rq[r].response.body.matrix
                  IN  /\ HasCell(m, symbol, exchange)
                      /\ IF exchange \in rq[r].rateFailed[symbol]
                         THEN IsDefaultCell(m[symbol][exchange])
                         ELSE ComputedFromOwnSum(m[symbol][exchange], r,
                                                 symbol, exchange)

C10_Witness ==
    \E r \in Requests :
      /\ Computed(r)
      /\ \E symbol \in Range(rq[r].symbols) :
           \E failed, other \in Range(rq[r].exchanges) :
             /\ failed \in rq[r].rateFailed[symbol]
             /\ ObservationsOf(r, symbol, failed) # {}
             /\ other \notin rq[r].rateFailed[symbol]
             /\ rq[r].response.body.matrix[symbol][other].apr # Int2Num(0)

-----------------------------------------------------------------------------
(* Claims about failures of the data source and of the configuration (Spec) *)

Failed(r, name) == \E c \in rq[r].failedCalls : c.call = name

EnumerationFailed(r) == Failed(r, "symbols") \/ Failed(r, "exchanges")

\* request r went past the credentials check and the cache slot and ended
Ran(r) == rq[r].pc = "done" /\ rq[r].queries > 0

IsFullResponse(resp) ==
    resp.status = 200 /\ DOMAIN resp.body = ResponseFields

IsFailure(resp) ==
    resp.status = 500 /\ DOMAIN resp.body \cap ResponseFields = {}

\* the window [endTime - days, endTime] the request asked for
NominalWindow(r) ==
    [start |-> Sub(Int2Num(rq[r].endTime),
                   Mul(rq[r].days, Int2Num(24 * 60))),
     end |-> Int2Num(rq[r].endTime)]

\* C11: the failure of any single data-source call of GET (symbols,
\* exchanges, reference timestamps, a pair's rate sum, exchange status, open
\* interest, stock symbols) still ends the request with a successful, full
\* response.
C11_AnyFailureStillSucceeds ==
    \A r \in Requests :
      (Ran(r) /\ rq[r].failedCalls # {}) => IsFullResponse(rq[r].response)

\* C11 as amended: a failed reference-timestamp, rate-sum, status,
\* open-interest or stock-symbol read degrades only its own slice (nominal
\* window, default cell, {}, {}, []) and the response is full and successful
\* with every other slice as the data source holds it; a failed symbol or
\* exchange enumeration ends the request with a 500.
C11_SubqueryFailureDegrades ==
    \A r \in Requests :
      Ran(r) =>
        IF EnumerationFailed(r) THEN IsFailure(rq[r].response)
        ELSE
          LET body == rq[r].response.body
          IN  /\ IsFullResponse(rq[r].response)
              /\ IF Failed(r, "status") THEN body.exchangeStatus = <<>>
                 ELSE DOMAIN body.exchangeStatus =
                        {row.exchange : row \in Range(world.statusRows)}
              /\ IF Failed(r, "stock") THEN body.stockSymbols = <<>>
                 ELSE body.stockSymbols =
                        [i \in 1..Len(world.stockRows) |->
                           world.stockRows[i].symbol]
              /\ IF Failed(r, "oi") THEN body.oiData = <<>>
                 ELSE DOMAIN body.oiData =
                        {row.symbol : row \in Range(world.oiRows)}
              /\ DOMAIN body.matrix = {row.symbol : row \in world.db}
              /\ Len(body.exchanges) =
                   Cardinality({row.exchange : row \in world.db})
              /\ \A symbol \in DOMAIN body.matrix :
                   /\ DOMAIN body.matrix[symbol] =
                        {row.exchange : row \in world.db}
                   /\ Call("reference", symbol, <<>>) \in rq[r].failedCalls
                        => rq[r].windows[symbol] = NominalWindow(r)
                   /\ \A exchange \in DOMAIN body.matrix[symbol] :
                        IF Call("rates", symbol, exchange)
                             \in rq[r].failedCalls
                        THEN IsDefaultCell(body.matrix[symbol][exchange])
                        ELSE body.matrix[symbol][exchange].rawPercent =
                               Mul(sumRates(ObservationsOf(r, symbol,
                                                           exchange)),
                                   Int2Num(100))

C11_Witness ==
    \E r \in Requests :
      /\ Ran(r)
      /\ Failed(r, "oi")
      /\ IsFullResponse(rq[r].response)
      /\ rq[r].response.body.oiData = <<>>
      /\ rq[r].response.body.stockSymbols # <<>>
      /\ rq[r].response.body.exchangeStatus # <<>>
      /\ rq[r].response.body.arbitrageOpportunities # <<>>

\* C12: a request that missed the cache and met a top-level error (a failed
\* enumeration is what GET throws to its boundary) answers 500 with the
\* error's message attached and none of the response fields, and the cache
\* slot is as the request found it.
C12_TopLevelFailureIs500WithMessage ==
    \A r \in Requests :
      (Ran(r) /\ EnumerationFailed(r)) =>
        /\ IsFailure(rq[r].response)
        /\ "message" \in DOMAIN rq[r].response.body
        /\ cache = rq[r].slot

MissingCredentials(r) ==
    world.impl = "supabase" /\ ~(rq[r].env.hasUrl /\ rq[r].env.hasKey)

\* C13: a request that finds a credential absent answers 500 with the fixed
\* message, has issued no data-source query, was not answered from the cache
\* slot and leaves the slot as it found it.
C13_MissingCredentialsFixed500 ==
    \A r \in Requests :
      (rq[r].pc = "done" /\ MissingCredentials(r)) =>
        /\ rq[r].response.status = 500
        /\ rq[r].response.body =
             [error |->
                "Server configuration error: missing Supabase credentials"]
        /\ rq[r].queries = 0
        /\ ~rq[r].hit
        /\ cache = rq[r].slot

\* a credential is absent while the slot holds a fresh entry for the
\* requested days
C13_Witness ==
    \E r \in Requests :
      /\ rq[r].pc = "done"
      /\ MissingCredentials(r)
      /\ rq[r].slot.present
      /\ rq[r].slot.days = rq[r].days
      /\ rq[r].days.k = "num"
      /\ clock - rq[r].slot.timestamp < 5

-----------------------------------------------------------------------------
(* Claims about the window and the annualisation (Spec) *)

\* max(1, span of w in days); NaN when w has an invalid bound, as Math.max
ClampedDays(w) ==
    IF w.start.k # "num" \/ w.end.k # "num" THEN NaN
    ELSE IF w.end.n - w.start.n > 24 * 60
         THEN Num(w.end.n - w.start.n, 24 * 60)
         ELSE Int2Num(1)

\* C15: the actualDays a cell is annualised with is max(1, span of the
\* resolved window in days) and is never less than 1, whatever days was
\* asked for and whatever reference timestamps came back.
C15_ActualDaysClamped ==
    \A r \in Requests :
      \A symbol \in DOMAIN rq[r].actualDays :
        \A actualDays \in rq[r].actualDays[symbol] :
          /\ actualDays = ClampedDays(rq[r].windows[symbol])
          /\ ~Lt(actualDays, Int2Num(1))
          /\ rq[r].days.k = "num" =>
               (actualDays.k = "num" /\ actualDays.n >= actualDays.d)

\* a window of negative length from reference timestamps in descending order
C15_Witness ==
    \E r \in Requests :
      /\ Computed(r)
      /\ \E symbol \in DOMAIN rq[r].actualDays :
           LET w == rq[r].windows[symbol]
           IN  /\ w.start.k = "num"
               /\ w.end.n - w.start.n < 0
               /\ rq[r].actualDays[symbol] = {Int2Num(1)}
               /\ Len(rq[r].refRows[symbol]) = 2

\* the window the claim names for a symbol: first and last reference
\* timestamp when some came back, else the nominal one
ClaimedWindow(r, symbol) ==
    LET refs == rq[r].refRows[symbol]
    IN  IF Len(refs) >= 1
        THEN [start |-> Int2Num(refs[1].funding_time),
              end |-> Int2Num(refs[Len(refs)].funding_time)]
        ELSE NominalWindow(r)

\* the sum of a pair's rates with lo <= funding_time <= hi
SumBetween(exchange, symbol, w) ==
    IF w.start.k # "num" \/ w.end.k # "num" THEN Int2Num(0)
    ELSE sumRates({row \in world.db :
                     /\ row.exchange = exchange
                     /\ row.symbol = symbol
                     /\ w.start.n <= row.funding_time * w.start.d
                     /\ row.funding_time * w.end.d <= w.end.n})

SpansFiveAndAHalfDays(refs) ==
    /\ Len(refs) >= 2
    /\ 2 * (refs[Len(refs)].funding_time - refs[1].funding_time) = 11 * 24 * 60

\* C16: per symbol, the rate sums and actualDays use [first, last] of the
\* reference timestamps when the lookup returned some and the nominal
\* [endTime - days, endTime] when it returned none or failed; days = 7 with
\* reference timestamps 5.5 days apart is annualised over 5.5 days.
C16_WindowFromReferenceTimestamps ==
    \A r \in Requests :
      \A symbol \in DOMAIN rq[r].results :
        LET w == ClaimedWindow(r, symbol)
        IN  /\ rq[r].windows[symbol] = w
            /\ rq[r].actualDays[symbol] \subseteq {ClampedDays(w)}
            /\ \A exchange \in Range(rq[r].exchanges) :
                 exchange \notin rq[r].rateFailed[symbol] =>
                   rq[r].results[symbol][exchange].rawPercent =
                     Mul(SumBetween(exchange, symbol, w), Int2Num(100))
            /\ (/\ rq[r].days = Int2Num(7)
                /\ SpansFiveAndAHalfDays(rq[r].refRows[symbol])
                /\ rq[r].rateFailed[symbol] = {})
                 => rq[r].actualDays[symbol] = {Num(11, 2)}

\* days = 7, reference timestamps 5.5 days apart, a cell built from a row
\* that the nominal window holds too
C16_Witness ==
    \E r \in Requests :
      /\ Computed(r)
      /\ rq[r].days = Int2Num(7)
      /\ \E symbol \in DOMAIN rq[r].results :
           /\ SpansFiveAndAHalfDays(rq[r].refRows[symbol])
           /\ rq[r].actualDays[symbol] = {Num(11, 2)}
           /\ \E exchange \in Range(rq[r].exchanges) :
                /\ rq[r].results[symbol][exchange].rawPercent # Int2Num(0)
                /\ Mul(rq[r].results[symbol][exchange].apr, Num(11, 2))
                     = Mul(rq[r].results[symbol][exchange].rawPercent,
                           Int2Num(365))
      /\ \E symbol \in DOMAIN rq[r].results :
           /\ rq[r].refRows[symbol] = <<>>
           /\ rq[r].actualDays[symbol] = {Int2Num(7)}

\* -1, 0 or 1 for a number; NaN has no sign
SignOf(x) ==
    IF x.k = "nan" THEN "none"
    ELSE IF x.n < 0 THEN "negative"
    ELSE IF x.n > 0 THEN "positive"
    ELSE "zero"

\* the rate sum a cell was built from: 0 when its query failed
RateSumOf(r, symbol, exchange) ==
    IF exchange \in rq[r].rateFailed[symbol] THEN Int2Num(0)
    ELSE SumBetween(exchange, symbol, rq[r].windows[symbol])

\* C17: every cell of the matrix has rawPercent = rateSum * 100 and
\* apr * actualDays = rawPercent * 365, and apr, rawPercent and the rate sum
\* are all positive, all negative or all zero.
C17_AprFromRawPercent ==
    \A r \in Requests :
      Computed(r) =>
        \A symbol \in DOMAIN rq[r].response.body.matrix :
          \A exchange \in DOMAIN rq[r].response.body.matrix[symbol] :
            LET cell == rq[r].response.body.matrix[symbol][exchange]
                rateSum == RateSumOf(r, symbol, exchange)
            IN  /\ cell.rawPercent = Mul(rateSum, Int2Num(100))
                /\ \A actualDays \in rq[r].actualDays[symbol] :
                     StrictEq(Mul(cell.apr, actualDays),
                              Mul(cell.rawPercent, Int2Num(365)))
                /\ SignOf(cell.apr) = SignOf(rateSum)
                /\ SignOf(cell.rawPercent) = SignOf(rateSum)
                /\ SignOf(rateSum) \in {"negative", "zero", "positive"}

-----------------------------------------------------------------------------
(* Claims about the cache slot (Spec) *)

\* the slot as request r found it may answer r: it holds an entry, stored
\* for the same numeric days, stamped less than 5 minutes before r started
SlotMayAnswer(r) ==
    /\ rq[r].slot.present
    /\ rq[r].days.k = "num"
    /\ rq[r].slot.days.k = "num"
    /\ rq[r].slot.days.n * rq[r].days.d = rq[r].days.n * rq[r].slot.days.d
    /\ rq[r].now - rq[r].slot.timestamp < 5

\* C20: a request is answered from the cache slot, with no data-source
\* query, only if the slot holds an entry for the same days stamped less
\* than 5 minutes before the request started; with an empty slot, other
\* days, an age of 5 minutes or more or non-numeric days it recomputes.
C20_CacheAnswersOnlyFreshSameDays ==
    \A r \in Requests :
      (rq[r].pc = "done" /\ ~MissingCredentials(r)) =>
        /\ rq[r].hit =>
             /\ SlotMayAnswer(r)
             /\ rq[r].queries = 0
             /\ rq[r].response = [status |-> 200, body |-> rq[r].slot.data]
        /\ ~SlotMayAnswer(r) => (~rq[r].hit /\ rq[r].queries > 0)

\* an entry of 4 minutes for the same days answers
C20_Witness ==
    \E r \in Requests :
      /\ rq[r].pc = "done"
      /\ rq[r].hit
      /\ rq[r].now - rq[r].slot.timestamp = 4
      /\ rq[r].response.body.matrix # <<>>

-----------------------------------------------------------------------------
(* Claims about the reads (SpecReads) *)

\* the most recent oi_data row of a symbol
IsMostRecent(rows, i) ==
    \A j \in 1..Len(rows) :
      rows[j].symbol = rows[i].symbol => rows[j].timestamp <= rows[i].timestamp

\* the amount a row holds: 0 when its text is no number
AmountOf(row) == IF row.oi_usd.k = "nan" THEN Int2Num(0) ELSE row.oi_usd

\* C14: the oiData entry of every symbol is the amount of the symbol's most
\* recent oi_data row, also when that amount is 0 or unreadable and older
\* rows hold other amounts.
C14_MostRecentOI ==
    (reads # <<>> /\ reads.oiDone /\ ~reads.oiFailed) =>
      \A i \in 1..Len(reads.oiRows) :
        IsMostRecent(reads.oiRows, i) =>
          /\ reads.oiRows[i].symbol \in DOMAIN reads.oiData
          /\ reads.oiData[reads.oiRows[i].symbol] = AmountOf(reads.oiRows[i])

\* the class the three ranges give to h = n/d hours
ClassOfHours(h) ==
    IF h.n < 2 * h.d THEN "healthy"
    ELSE IF h.n < 6 * h.d THEN "warning"
    ELSE "error"

\* the row that decides an exchange's entry: the last one of the exchange
IsLastOfExchange(rows, i) ==
    \A j \in (i + 1)..Len(rows) : rows[j].exchange # rows[i].exchange

\* C19: an exchange is healthy below 2 hours since its update, warning from
\* 2 and below 6, error from 6 on; it has exactly one of the three and two
\* exchanges with the same hours have the same one.
C19_HealthByHours ==
    (reads # <<>> /\ reads.statusDone /\ ~reads.statusFailed) =>
      LET rows == reads.statusRows
          status == reads.exchangeStatus
      IN  /\ DOMAIN status = {rows[i].exchange : i \in 1..Len(rows)}
          /\ \A i \in 1..Len(rows) :
               IsLastOfExchange(rows, i) =>
                 /\ status[rows[i].exchange].status
                      = ClassOfHours(rows[i].hours_since_update)
                 /\ status[rows[i].exchange].status
                      \in {"healthy", "warning", "error"}
          /\ \A i, j \in 1..Len(rows) :
               (/\ IsLastOfExchange(rows, i)
                /\ IsLastOfExchange(rows, j)
                /\ rows[i].hours_since_update = rows[j].hours_since_update)
                 => status[rows[i].exchange].status
                      = status[rows[j].exchange].status

\* the two limits themselves: 2 hours is warning, 6 hours is error
C19_Witness ==
    /\ reads # <<>>
    /\ reads.statusDone
    /\ \E i, j \in 1..Len(reads.statusRows) :
         /\ reads.statusRows[i].hours_since_update = Int2Num(2)
         /\ reads.statusRows[j].hours_since_update = Int2Num(6)
         /\ reads.statusRows[i].exchange # reads.statusRows[j].exchange
         /\ reads.exchangeStatus[reads.statusRows[i].exchange].status
              = "warning"
         /\ reads.exchangeStatus[reads.statusRows[j].exchange].status
              = "error"

-----------------------------------------------------------------------------
(* Claims about the opportunity table (SpecTable) *)

\* a and b are the same text ignoring case
SameIgnoringCase(a, b) ==
    /\ Len(a) = Len(b)
    /\ \A i \in 1..Len(a) : ToLowerChar(a[i]) = ToLowerChar(b[i])

MatchesSelected(name) ==
    \E ex \in Range(table.ui.selectedExchanges) : SameIgnoringCase(ex, name)

\* the search term occurs in the symbol, ignoring case
SearchMatches(symbol) ==
    LET term == table.ui.searchTerm
    IN  \E i \in 0..(Len(symbol) - Len(term)) :
          \A k \in 1..Len(term) :
            ToLowerChar(symbol[i + k]) = ToLowerChar(term[k])

OiValueOf(symbol) ==
    (CHOOSE e \in Range(table.data.oiData) : e.symbol = symbol).value

HasOi(symbol) == \E e \in Range(table.data.oiData) : e.symbol = symbol

\* fewer than 10 symbols have a higher open interest
AmongTenHighest(symbol) ==
    /\ HasOi(symbol)
    /\ Cardinality({e \in Range(table.data.oiData) :
                      e.value > OiValueOf(symbol)}) < 10

\* fewer than 10 other symbols have as high an open interest
SurelyAmongTenHighest(symbol) ==
    /\ HasOi(symbol)
    /\ Cardinality({e \in Range(table.data.oiData) :
                      e.symbol # symbol /\ e.value >= OiValueOf(symbol)}) < 10

OtherTestsPass(opp) ==
    /\ MatchesSelected(opp.longExchange)
    /\ MatchesSelected(opp.shortExchange)
    /\ SearchMatches(opp.symbol)
    /\ table.ui.stocksOnly => opp.symbol \in Range(table.data.stockSymbols)

\* C18: the table lists an opportunity if and only if its long and its
\* short exchange each match a selected exchange ignoring case, its symbol
\* contains the search term ignoring case, it is a stock symbol when
\* stocksOnly is on and it is among the 10 symbols of highest open interest
\* when top10OI is on; the listed rows keep the order of the response.
C18_ShownIffAllFiltersPass ==
    table.loaded =>
      /\ \A opp \in Range(table.data.arbitrageOpportunities) :
           /\ opp \in Range(table.shown) =>
                /\ OtherTestsPass(opp)
                /\ table.ui.top10OI => AmongTenHighest(opp.symbol)
           /\ (/\ OtherTestsPass(opp)
               /\ table.ui.top10OI => SurelyAmongTenHighest(opp.symbol))
                => opp \in Range(table.shown)
      /\ Range(table.shown) \subseteq Range(table.data.arbitrageOpportunities)

\* every control is in use: a listed and an unlisted opportunity, one over
\* two exchanges selected under another case
C18_Witness ==
    /\ table.loaded
    /\ table.ui.stocksOnly
    /\ table.ui.top10OI
    /\ table.ui.searchTerm # <<>>
    /\ Len(table.data.oiData) > 10
    /\ Len(table.ui.selectedExchanges) = 2
    /\ \E opp \in Range(table.shown) :
         /\ opp.longExchange \notin Range(table.ui.selectedExchanges)
         /\ opp.shortExchange \in Range(table.ui.selectedExchanges)
    /\ Len(table.shown) < Len(table.data.arbitrageOpportunities)

-----------------------------------------------------------------------------
(* Claims about the cache slot under several requests (SpecConcurrent) *)

IsStart(i) == i \in 1..Len(log) /\ log[i].ev = "start"

\* where in the history the request begun at i ended; 0 while it runs
EndOf(i) ==
    LET js == {j \in (i + 1)..Len(log) :
                 log[j].ev = "end" /\ log[j].r = log[i].r}
    IN  IF js = {} THEN 0 ELSE CHOOSE j \in js : \A k \in js : j <= k

WroteBetween(a, b) ==
    \E k \in (a + 1)..(b - 1) : log[k].ev = "end" /\ log[k].wrote

\* the {data, timestamp, days} of the latest invocation of r
OwnRecord(r) ==
    [present |-> TRUE, data |-> rq[r].response.body,
     timestamp |-> rq[r].now, days |-> rq[r].days]

\* right after a request has stored its answer the slot is its own record
LastWriteIsOwn ==
    (Len(log) > 0 /\ log[Len(log)].wrote) =>
      cache = OwnRecord(log[Len(log)].r)

\* a request for d1 ended, then a request for another d2 began, missed and
\* ended at e, then with no write in between a request for d1 began at c
Thrashed(a, b, c) ==
    /\ IsStart(a) /\ IsStart(b) /\ IsStart(c)
    /\ EndOf(a) # 0 /\ EndOf(a) < b
    /\ ~log[b].hit
    /\ ~StrictEq(log[a].days, log[b].days)
    /\ EndOf(b) # 0 /\ EndOf(b) < c
    /\ ~WroteBetween(EndOf(b), c)
    /\ log[c].days = log[a].days

\* C21 as stated: every request that misses the cache overwrites the slot
\* with its own record; after a completed request for d1 and a completed
\* cache-miss request for another d2 the slot holds d2 and a following
\* request for d1 misses.
C21_EveryMissOverwritesSlot ==
    /\ \A i \in 1..Len(log) :
         (IsStart(i) /\ ~log[i].hit /\ EndOf(i) # 0) => log[EndOf(i)].wrote
    /\ LastWriteIsOwn
    /\ \A a, b, c \in 1..Len(log) : Thrashed(a, b, c) => ~log[c].hit
    /\ \A a, b \in 1..Len(log) :
         (/\ IsStart(a) /\ IsStart(b) /\ EndOf(a) # 0 /\ EndOf(a) < b
          /\ ~log[b].hit /\ ~StrictEq(log[a].days, log[b].days)
          /\ EndOf(b) = Len(log))
           => (cache.present /\ cache.days = log[b].days)

\* C21: every request that misses the cache and answers 200 overwrites the
\* slot with its own {data, timestamp, days}, the timestamp being the time it
\* began, and one that fails with 500 leaves the slot alone; after a
\* completed request for d1 and a cache-miss request for another d2 that
\* answered 200 the slot holds d2 and a following request for d1 misses.
C21_SuccessfulMissOverwritesSlot ==
    /\ \A i \in 1..Len(log) :
         (IsStart(i) /\ ~log[i].hit /\ EndOf(i) # 0) =>
           (log[EndOf(i)].wrote <=> log[EndOf(i)].status = 200)
    /\ LastWriteIsOwn
    /\ \A a, b, c \in 1..Len(log) :
         (Thrashed(a, b, c) /\ log[EndOf(b)].status = 200) => ~log[c].hit
    /\ \A a, b \in 1..Len(log) :
         (/\ IsStart(a) /\ IsStart(b) /\ EndOf(a) # 0 /\ EndOf(a) < b
          /\ ~log[b].hit /\ ~StrictEq(log[a].days, log[b].days)
          /\ EndOf(b) = Len(log) /\ log[EndOf(b)].status = 200)
           => (cache.present /\ cache.days = log[b].days)

\* 7 days answered and stored, then 1 day answered and stored, then 7 days
\* asked again within the time to live of the first entry: a miss
C21_Witness ==
    /\ clock = Now0
    /\ \E a, b, c \in 1..Len(log) :
         /\ Thrashed(a, b, c)
         /\ log[EndOf(a)].wrote
         /\ log[EndOf(b)].wrote
         /\ log[a].days = Int2Num(7)
         /\ log[b].days = Int2Num(1)
         /\ ~log[c].hit
         /\ cache.days = Int2Num(1)

\* the matrix a request for days computes at endTime from the table when no
\* data-source call fails and no reference timestamp is returned
ExpectedMatrix(days, endTime) ==
    LET syms == sortedDistinct({row.symbol : row \in world.db})
        exs == sortedDistinct({row.exchange : row \in world.db})
    IN  findBestWorstCells(
          [s \in Range(syms) |->
             processSymbolData(world.impl, world.db,
                               [ok |-> TRUE, rows |-> <<>>], {}, s, exs,
                               Int2Num(endTime), days)],
          syms, exs)

ComputedFor(data, days) ==
    \E t \in Now0..clock : data.matrix = ExpectedMatrix(days, t)

\* the last write of the history; 0 when nothing was written
LastWrite ==
    LET ws == {k \in 1..Len(log) : log[k].wrote}
    IN  IF ws = {} THEN 0 ELSE CHOOSE k \in ws : \A j \in ws : j <= k

StartedAfter(r, k) ==
    \E i \in (k + 1)..Len(log) : log[i].ev = "start" /\ log[i].r = r

\* two requests were in flight together
Overlapped(a, b) ==
    /\ IsStart(a) /\ IsStart(b) /\ a < b
    /\ log[a].r # log[b].r
    /\ (EndOf(a) = 0 \/ b < EndOf(a))

\* C22: when requests overlap and miss the cache, each computes its answer
\* from its own days; the slot holds the record of the request that wrote
\* last; in every state the data of the slot is the answer computed for the
\* days of the slot, and an answer from the slot is the answer computed for
\* the days that were asked for.
C22_SlotConsistentUnderInterleaving ==
    /\ LastWrite = 0 => cache = NoCache
    /\ (LastWrite # 0 /\ ~StartedAfter(log[LastWrite].r, LastWrite)) =>
         cache = OwnRecord(log[LastWrite].r)
    /\ LastWrite # 0 =>
         (cache.present /\ cache.days = log[LastWrite].days)
    /\ world \in ConcurrentWorlds =>
         /\ \A r \in Requests :
              (rq[r].pc = "done" /\ ~rq[r].hit) =>
                /\ rq[r].queries > 0
                /\ rq[r].response.status = 200
                /\ rq[r].response.body.matrix =
                       ExpectedMatrix(rq[r].days, rq[r].endTime)
         /\ cache.present => ComputedFor(cache.data, cache.days)
         /\ \A r \in Requests :
              (rq[r].pc = "done" /\ rq[r].hit) =>
                /\ rq[r].queries = 0
                /\ ComputedFor(rq[r].response.body, rq[r].days)
                /\ ~ComputedFor(rq[r].response.body,
                                IF rq[r].days = Int2Num(1) THEN Int2Num(7)
                                ELSE Int2Num(1))

\* a request for 7 days and one for 1 day overlapped and both missed; the one
\* for 7 days wrote first, the one for 1 day last, and then a request for 1
\* day was answered from the slot
C22_Witness ==
    \E a, b, c \in 1..Len(log) :
      /\ Overlapped(a, b)
      /\ ~log[a].hit /\ ~log[b].hit
      /\ EndOf(a) # 0 /\ log[EndOf(a)].wrote
      /\ EndOf(b) # 0 /\ log[EndOf(b)].wrote
      /\ EndOf(a) < EndOf(b)
      /\ log[a].days = Int2Num(7)
      /\ log[b].days = Int2Num(1)
      /\ IsStart(c) /\ EndOf(b) < c /\ log[c].hit
      /\ log[c].days = Int2Num(1)
      /\ rq[log[c].r].response.body.matrix = ExpectedMatrix(Int2Num(1), Now0)
      /\ ExpectedMatrix(Int2Num(1), Now0) # ExpectedMatrix(Int2Num(7), Now0)

-----------------------------------------------------------------------------
(* Claims about the batches of one request (SpecBatches) *)

\* the calls of processSymbolData of r that have completed
Completed(r) == DOMAIN rq[r].matrix \cup DOMAIN rq[r].results

\* the calls of r that have started and not completed
InFlight(r) == Range(rq[r].started) \ Completed(r)

\* the batch, counted from 0, of the j-th symbol
BatchOf(j) == (j - 1) \div 10

CeilDiv(n, m) == (n + m - 1) \div m

\* C23: within one GET the symbols are processed in consecutive batches of
\* at most 10: a call of a later batch starts only when every call of the
\* batches before it has completed, at most 10 calls are in flight, ceil(n /
\* 10) batches are run, and every enumerated symbol is processed exactly once
\* and has an entry in the matrix of the answer.
C23_BatchesOfTenInSequence ==
    \A r \in Requests :
      LET syms == rq[r].symbols
          n == Len(syms)
          begun == rq[r].started
      IN  /\ Cardinality(InFlight(r)) <= 10
          /\ Len(begun) <= n
          /\ begun = SubSeq(syms, 1, Len(begun))
          /\ \A j, k \in 1..Len(begun) :
               BatchOf(k) < BatchOf(j) => syms[k] \in Completed(r)
          /\ rq[r].rounds = CeilDiv(Len(begun), 10)
          /\ rq[r].pc = "await" =>
               /\ Len(rq[r].batch) \in 1..10
               /\ rq[r].batch = SubSeq(syms, 10 * (rq[r].rounds - 1) + 1,
                                       Len(begun))
          /\ (rq[r].pc = "done" /\ rq[r].response.status = 200
               /\ ~rq[r].hit) =>
               /\ rq[r].rounds = CeilDiv(n, 10)
               /\ begun = syms
               /\ InFlight(r) = {}
               /\ DOMAIN rq[r].response.body.matrix = Range(syms)
               /\ rq[r].queries = 5 + n * (1 + Len(rq[r].exchanges))

\* 21 symbols were answered in 3 batches
C23_Witness ==
    \E r \in Requests :
      /\ rq[r].pc = "done"
      /\ rq[r].response.status = 200
      /\ Len(rq[r].symbols) = 21
      /\ rq[r].rounds = 3
      /\ Cardinality(DOMAIN rq[r].response.body.matrix) = 21

-----------------------------------------------------------------------------
(* Claims about the dashboard's fetches (SpecDashboard) *)

\* every fetch has completed and none is due
Settled == dash.fetches = {} /\ ~dash.effectPending /\ dash.issued > 0

\* C24: when the selected days changed while an earlier fetch was in flight,
\* then once every fetch in flight has completed (none of them failing) the
\* data displayed is the response for the days now selected, and loading is
\* false.
C24_LateResponseNeverReplaces ==
    (Settled /\ dash.raced /\ dash.failed = 0) =>
      /\ dash.data = ResponseFor(dash.days)
      /\ ~dash.loading

\* once every fetch has completed loading is false
C24_LoadingFalseWhenSettled == Settled => ~dash.loading

====
